---- MODULE Spec2Model ----
(***************************************************************************)
(* A model of the stack trace analyzer: the trace parser, the file         *)
(* resolver, the method locator, the history analyzer and the POST         *)
(* orchestrator that sequences them.  Strings are TLA+ strings, read       *)
(* character by character with SubSeq, so that the regular expressions and *)
(* string operations of the source are computed, not assumed.              *)
(***************************************************************************)
EXTENDS Integers, Sequences, FiniteSets, TLC

VARIABLES
    fn,       \* the exported function under exercise ("POST" for the orchestrator)
    args,     \* its arguments
    ret,      \* its return value, meaningful once returned
    returned, \* whether the call has returned
    progressSteps,  \* route.ts: the module-wide list of progress steps
    requests,       \* route.ts: the POST calls in flight, their local variables and where they wait
    tracker         \* progress-tracker.ts: the ProgressTracker object under exercise

harnessVars == <<fn, args, ret, returned>>

(***************************************************************************)
(* Bounds of the model.                                                    *)
(***************************************************************************)
MaxFrags == 6
MaxFrames == 4
MaxCandidates == 3
MaxFileLines == 5
MaxBlameEntries == 3
MaxBlameLines == 5
MaxMessageParts == 3
MaxSummaryLines == 4
MaxLogRecords == 3
MaxToolLines == 2
MaxSegments == 3
MaxTokenParts == 4
MaxTrackerSteps == 2
MaxObservers == 2
MaxSubscriptions == 3
MaxSent == 5

(***************************************************************************)
(* JavaScript string operations.                                           *)
(***************************************************************************)
\* String.prototype.charAt, 1-based: "" outside the string
Ch(s, i) == IF i \in 1..Len(s) THEN SubSeq(s, i, i) ELSE ""

CharSet(s) == {Ch(s, i) : i \in 1..Len(s)}

Digit == CharSet("0123456789")
LowerAlpha == CharSet("abcdefghijklmnopqrstuvwxyz")
UpperAlpha == CharSet("ABCDEFGHIJKLMNOPQRSTUVWXYZ")
HexDigit == CharSet("0123456789abcdef")
\* \s of a JavaScript regular expression, which is also what trim() strips:
\* the white space and the line terminators of ECMAScript.  A TLA+ string can
\* hold the characters below U+0100 and, above, those whose code ends in a
\* byte of 80 to FF; of the white space that leaves TAB, LF, VT, FF, CR, SP,
\* U+00A0, U+1680 and U+FEFF (the string below holds VT, U+00A0, U+1680 and U+FEFF),
\* and no string of the model holds U+2000 to U+200A, U+2028, U+2029, U+202F,
\* U+205F or U+3000.
WhiteSpace == {" ", "\t", "\n", "\r", "\f"} \cup CharSet("  ﻿")

\* every character of s[from..to] is in set
AllIn(s, from, to, set) == \A i \in from..to : Ch(s, i) \in set

StartsWith(s, p) == Len(p) <= Len(s) /\ SubSeq(s, 1, Len(p)) = p

\* String.prototype.indexOf, 1-based; 0 when p does not occur
RECURSIVE IndexFrom(_, _, _)
IndexFrom(s, p, i) ==
    IF i + Len(p) - 1 > Len(s) THEN 0
    ELSE IF SubSeq(s, i, i + Len(p) - 1) = p THEN i
    ELSE IndexFrom(s, p, i + 1)

IndexOf(s, p) == IndexFrom(s, p, 1)

Includes(s, p) == IndexOf(s, p) > 0

RECURSIVE Split(_, _)
Split(s, sep) ==
    LET i == IndexOf(s, sep)
    IN IF i = 0 THEN <<s>>
       ELSE <<SubSeq(s, 1, i - 1)>> \o Split(SubSeq(s, i + Len(sep), Len(s)), sep)

\* A TLA+ string cannot hold the backtick character: the model writes it as ~, a
\* character none of the source's patterns mentions.
Backtick == "~"

\* The letters above U+007F that toLowerCase changes and that can be written
\* in a TLA+ string together with their lower-case letter (Unicode 17), and
\* at the same position of LowerLetters the lower-case letter of each.
UpperLetters ==
       "ÀÁÂÃÄÅÆÇÈÉÊËÌÍÎÏÐÑÒÓÔÕÖØÙÚÛÜÝÞƂƄƇƋƎƑƘƠƢƤƦƧƩƬƮƯƱƲƳƵƷƸƼǄǅǇǈǊǋǍ"
    \o "ǏǑǓǕǗǙǛǞǠǢǤǦǨǪǬǮǱǲǴǶǷǸǺǼǾΆΈΉΊΌΎΏΑΒΓΔΕΖΗΘΙΚΛΜΝΞΟΠΡΣΤΥΦΧΨΩΪΫϏϘ"
    \o "ϚϜϞϠϢϤϦϨϪϬϮϴϷϹϺҀҊҌҎҐҒҔҖҘҚҜҞҠҢҤҦҨҪҬҮҰҲҴҶҸҺҼҾӀӁӃӅӇӉӋӍӐӒӔӖӘӚӜӞӠ"
    \o "ӢӤӦӨӪӬӮӰӲӴӶӸӺӼӾᎰᎱᎲᎳᎴᎵᎶᎷᎸᎹᎺᎻᎼᎽᎾᎿᏀᏁᏂᏃᏄᏅᏆᏇᏈᏉᏊᏋᏌᏍᏎᏏᏐᏑᏒᏓᏔᏕᏖᏗᏘᏙᏚᏛᏜ"
    \o "ᏝᏞᏟᏠᏡᏢᏣᏤᏥᏦᏧᏨᏩᏪᏫᏬᏭᏮᏯᏰᏱᏲᏳᏴᏵᲐᲑᲒᲓᲔᲕᲖᲗᲘᲙᲚᲛᲜᲝᲞᲟᲠᲡᲢᲣᲤᲥᲦᲧᲨᲩᲪᲫᲬᲭᲮᲯᲰᲱᲲ"
    \o "ᲳᲴᲵᲶᲷᲸᲹᲺᲽᲾᲿẀẂẄẆẈẊẌẎẐẒẔẞẠẢẤẦẨẪẬẮẰẲẴẶẸẺẼẾỀỂỄỆỈỊỌỎỐỒỔỖỘỚỜỞỠỢỤỦỨ"
    \o "ỪỬỮỰỲỴỶỸỺỼỾᾈᾉᾊᾋᾌᾍᾎᾏᾘᾙᾚᾛᾜᾝᾞᾟᾨᾩᾪᾫᾬᾭᾮᾯᾸᾹᾼῌῘῙῨῩῬῼↃⒶⒷⒸⒹⒺⒻⒼⒽⒾⒿⓀⓁⓂⓃ"
    \o "ⓄⓅⓆⓇⓈⓉⓊⓋⓌⓍⓎⓏⲀⲂⲄⲆⲈⲊⲌⲎⲐⲒⲔⲖⲘⲚⲜⲞⲠⲢⲤⲦⲨⲪⲬⲮⲰⲲⲴⲶⲸⲺⲼⲾⳀⳂⳄⳆⳈⳊⳌⳎⳐⳒⳔⳖⳘⳚⳜⳞ"
    \o "ⳠⳢⳫⳭⳲꚀꚂꚄꚆꚈꚊꚌꚎꚐꚒꚔꚖꚘꚚꞀꞂꞄꞆꞋꞐꞒꞖꞘꞚꞜꞞꞠꞢꞤꞦꞨꞰꞱꞲꞴꞶꞸꞺꞼꞾꟀꟂꟄꟅꟆꟇꟉꟐꟖꟘꟵ"
    \o "ᲉꟌ꟎꟒꟔ꟚꟜ"

LowerLetters ==
       "àáâãäåæçèéêëìíîïðñòóôõöøùúûüýþƃƅƈƌǝƒƙơƣƥʀƨʃƭʈưʊʋƴƶʒƹƽǆǆǉǉǌǌǎ"
    \o "ǐǒǔǖǘǚǜǟǡǣǥǧǩǫǭǯǳǳǵƕƿǹǻǽǿάέήίόύώαβγδεζηθικλμνξοπρστυφχψωϊϋϗϙ"
    \o "ϛϝϟϡϣϥϧϩϫϭϯθϸϲϻҁҋҍҏґғҕҗҙқҝҟҡңҥҧҩҫҭүұҳҵҷҹһҽҿӏӂӄӆӈӊӌӎӑӓӕӗәӛӝӟӡ"
    \o "ӣӥӧөӫӭӯӱӳӵӷӹӻӽӿꮀꮁꮂꮃꮄꮅꮆꮇꮈꮉꮊꮋꮌꮍꮎꮏꮐꮑꮒꮓꮔꮕꮖꮗꮘꮙꮚꮛꮜꮝꮞꮟꮠꮡꮢꮣꮤꮥꮦꮧꮨꮩꮪꮫꮬ"
    \o "ꮭꮮꮯꮰꮱꮲꮳꮴꮵꮶꮷꮸꮹꮺꮻꮼꮽꮾꮿᏸᏹᏺᏻᏼᏽაბგდევზთიკლმნოპჟრსტუფქღყშჩცძწჭხჯჰჱჲ"
    \o "ჳჴჵჶჷჸჹჺჽჾჿẁẃẅẇẉẋẍẏẑẓẕßạảấầẩẫậắằẳẵặẹẻẽếềểễệỉịọỏốồổỗộớờởỡợụủứ"
    \o "ừửữựỳỵỷỹỻỽỿᾀᾁᾂᾃᾄᾅᾆᾇᾐᾑᾒᾓᾔᾕᾖᾗᾠᾡᾢᾣᾤᾥᾦᾧᾰᾱᾳῃῐῑῠῡῥῳↄⓐⓑⓒⓓⓔⓕⓖⓗⓘⓙⓚⓛⓜⓝ"
    \o "ⓞⓟⓠⓡⓢⓣⓤⓥⓦⓧⓨⓩⲁⲃⲅⲇⲉⲋⲍⲏⲑⲓⲕⲗⲙⲛⲝⲟⲡⲣⲥⲧⲩⲫⲭⲯⲱⲳⲵⲷⲹⲻⲽⲿⳁⳃⳅⳇⳉⳋⳍⳏⳑⳓⳕⳗⳙⳛⳝⳟ"
    \o "ⳡⳣⳬⳮⳳꚁꚃꚅꚇꚉꚋꚍꚏꚑꚓꚕꚗꚙꚛꞁꞃꞅꞇꞌꞑꞓꞗꞙꞛꞝꞟꞡꞣꞥꞧꞩʞʇʝꞵꞷꞹꞻꞽꞿꟁꟃꞔʂᶎꟈꟊꟑꟗꟙꟶ"
    \o "ᲊꟍ꟏ꟓꟕꟛƛ"

\* The letters that can be written but whose lower-case letter cannot: no
\* string of the model holds one where it is lowered.
LettersLoweredOutside ==
       "ƁƆƉƊƏƐƓƔƖƗƜƝƟϽϾϿႠႡႢႣႤႥႦႧႨႩႪႫႬႭႮႯႰႱႲႳႴႵႶႷႸႹႺႻႼႽႾႿჀჁჂჃჄჅჇჍᎠᎡᎢᎣ"
    \o "ᎤᎥᎦᎧᎨᎩᎪᎫᎬᎭᎮᎯᾺΆῈΈῊΉῚΊῪΎῸΌῺΏꞍꞪꞫꞬꞭꞮꞳ"
    \o "Ɤ"

\* The cased letters that are not case-ignorable, and the case-ignorable
\* characters (Unicode 17), of those that can be written: what the condition
\* Final_Sigma of toLowerCase reads.
CasedLetters ==
       "ABCDEFGHIJKLMNOPQRSTUVWXYZabcdefghijklmnopqrstuvwxyzªµºÀÁÂÃÄ"
    \o "ÅÆÇÈÉÊËÌÍÎÏÐÑÒÓÔÕÖØÙÚÛÜÝÞßàáâãäåæçèéêëìíîïðñòóôõöøùúûüýþÿƀƁƂ"
    \o "ƃƄƅƆƇƈƉƊƋƌƍƎƏƐƑƒƓƔƕƖƗƘƙƚƛƜƝƞƟƠơƢƣƤƥƦƧƨƩƪƫƬƭƮƯưƱƲƳƴƵƶƷƸƹƺƼƽƾƿ"
    \o "ǄǅǆǇǈǉǊǋǌǍǎǏǐǑǒǓǔǕǖǗǘǙǚǛǜǝǞǟǠǡǢǣǤǥǦǧǨǩǪǫǬǭǮǯǰǱǲǳǴǵǶǷǸǹǺǻǼǽǾǿ"
    \o "ʀʁʂʃʄʅʆʇʈʉʊʋʌʍʎʏʐʑʒʓʖʗʘʙʚʛʜʝʞʟʠʡʢʣʤʥʦʧʨʩʪʫʬʭʮʯΆΈΉΊΌΎΏΐΑΒΓΔΕ"
    \o "ΖΗΘΙΚΛΜΝΞΟΠΡΣΤΥΦΧΨΩΪΫάέήίΰαβγδεζηθικλμνξοπρςστυφχψωϊϋόύώϏϐϑϒ"
    \o "ϓϔϕϖϗϘϙϚϛϜϝϞϟϠϡϢϣϤϥϦϧϨϩϪϫϬϭϮϯϰϱϲϳϴϵϷϸϹϺϻϼϽϾϿҀҁҊҋҌҍҎҏҐґҒғҔҕҖҗ"
    \o "ҘҙҚқҜҝҞҟҠҡҢңҤҥҦҧҨҩҪҫҬҭҮүҰұҲҳҴҵҶҷҸҹҺһҼҽҾҿӀӁӂӃӄӅӆӇӈӉӊӋӌӍӎӏӐӑӒӓ"
    \o "ӔӕӖӗӘәӚӛӜӝӞӟӠӡӢӣӤӥӦӧӨөӪӫӬӭӮӯӰӱӲӳӴӵӶӷӸӹӺӻӼӽӾӿրցւփքօֆևֈႠႡႢႣႤႥႦ"
    \o "ႧႨႩႪႫႬႭႮႯႰႱႲႳႴႵႶႷႸႹႺႻႼႽႾႿჀჁჂჃჄჅჇჍაბგდევზთიკლმნოპჟრსტუფქღყშჩც"
    \o "ძწჭხჯჰჱჲჳჴჵჶჷჸჹჺჽჾჿᎠᎡᎢᎣᎤᎥᎦᎧᎨᎩᎪᎫᎬᎭᎮᎯᎰᎱᎲᎳᎴᎵᎶᎷᎸᎹᎺᎻᎼᎽᎾᎿᏀᏁᏂᏃᏄᏅᏆᏇᏈ"
    \o "ᏉᏊᏋᏌᏍᏎᏏᏐᏑᏒᏓᏔᏕᏖᏗᏘᏙᏚᏛᏜᏝᏞᏟᏠᏡᏢᏣᏤᏥᏦᏧᏨᏩᏪᏫᏬᏭᏮᏯᏰᏱᏲᏳᏴᏵᏸᏹᏺᏻᏼᏽᲀᲁᲂᲃᲄᲅᲆᲇᲈ"
    \o "ᲐᲑᲒᲓᲔᲕᲖᲗᲘᲙᲚᲛᲜᲝᲞᲟᲠᲡᲢᲣᲤᲥᲦᲧᲨᲩᲪᲫᲬᲭᲮᲯᲰᲱᲲᲳᲴᲵᲶᲷᲸᲹᲺᲽᲾᲿᶀᶁᶂᶃᶄᶅᶆᶇᶈᶉᶊᶋᶌᶍ"
    \o "ᶎᶏᶐᶑᶒᶓᶔᶕᶖᶗᶘᶙᶚẀẁẂẃẄẅẆẇẈẉẊẋẌẍẎẏẐẑẒẓẔẕẖẗẘẙẚẛẜẝẞẟẠạẢảẤấẦầẨẩẪẫẬậẮ"
    \o "ắẰằẲẳẴẵẶặẸẹẺẻẼẽẾếỀềỂểỄễỆệỈỉỊịỌọỎỏỐốỒồỔổỖỗỘộỚớỜờỞởỠỡỢợỤụỦủỨứỪ"
    \o "ừỬửỮữỰựỲỳỴỵỶỷỸỹỺỻỼỽỾỿᾀᾁᾂᾃᾄᾅᾆᾇᾈᾉᾊᾋᾌᾍᾎᾏᾐᾑᾒᾓᾔᾕᾖᾗᾘᾙᾚᾛᾜᾝᾞᾟᾠᾡᾢᾣᾤᾥᾦ"
    \o "ᾧᾨᾩᾪᾫᾬᾭᾮᾯᾰᾱᾲᾳᾴᾶᾷᾸᾹᾺΆᾼιῂῃῄῆῇῈΈῊΉῌῐῑῒΐῖῗῘῙῚΊῠῡῢΰῤῥῦῧῨῩῪΎῬῲῳῴῶῷ"
    \o "ῸΌῺΏῼↃↄⒶⒷⒸⒹⒺⒻⒼⒽⒾⒿⓀⓁⓂⓃⓄⓅⓆⓇⓈⓉⓊⓋⓌⓍⓎⓏⓐⓑⓒⓓⓔⓕⓖⓗⓘⓙⓚⓛⓜⓝⓞⓟⓠⓡⓢⓣⓤⓥⓦⓧⓨⓩⲀ"
    \o "ⲁⲂⲃⲄⲅⲆⲇⲈⲉⲊⲋⲌⲍⲎⲏⲐⲑⲒⲓⲔⲕⲖⲗⲘⲙⲚⲛⲜⲝⲞⲟⲠⲡⲢⲣⲤⲥⲦⲧⲨⲩⲪⲫⲬⲭⲮⲯⲰⲱⲲⲳⲴⲵⲶⲷⲸⲹⲺⲻⲼ"
    \o "ⲽⲾⲿⳀⳁⳂⳃⳄⳅⳆⳇⳈⳉⳊⳋⳌⳍⳎⳏⳐⳑⳒⳓⳔⳕⳖⳗⳘⳙⳚⳛⳜⳝⳞⳟⳠⳡⳢⳣⳤⳫⳬⳭⳮⳲⳳꚀꚁꚂꚃꚄꚅꚆꚇꚈꚉꚊꚋꚌꚍ"
    \o "ꚎꚏꚐꚑꚒꚓꚔꚕꚖꚗꚘꚙꚚꚛꞀꞁꞂꞃꞄꞅꞆꞇꞋꞌꞍꞎꞐꞑꞒꞓꞔꞕꞖꞗꞘꞙꞚꞛꞜꞝꞞꞟꞠꞡꞢꞣꞤꞥꞦꞧꞨꞩꞪꞫꞬꞭꞮꞯꞰꞱ"
    \o "ꞲꞳꞴꞵꞶꞷꞸꞹꞺꞻꞼꞽꞾꞿꟀꟁꟂꟃꟄꟅꟆꟇꟈꟉꟊꟐꟑꟓꟕꟖꟗꟘꟙꟵꟶꟺꮀꮁꮂꮃꮄꮅꮆꮇꮈꮉꮊꮋꮌꮍꮎꮏꮐꮑꮒꮓꮔꮕꮖꮗ"
    \o "ꮘꮙꮚꮛꮜꮝꮞꮟꮠꮡꮢꮣꮤꮥꮦꮧꮨꮩꮪꮫꮬꮭꮮꮯꮰꮱꮲꮳꮴꮵꮶꮷꮸꮹꮺꮻꮼꮽꮾꮿ"
    \o "ᲉᲊꟋꟌꟍ꟎꟏꟒꟔ꟚꟛꟜ"

CaseIgnorableChars ==
       "'.:^¨­¯´·¸ʰʱʲʳʴʵʶʷʸʹʺʻʼʽʾʿˀˁ˂˃˄˅ˆˇˈˉˊˋˌˍˎˏːˑ˒˓˔˕˖˗˘˙˚˛˜˝˞˟ˠˡ"
    \o "ˢˣˤ˥˦˧˨˩˪˫ˬ˭ˮ˯˰˱˲˳˴˵˶˷˸˹˺˻˼˽˾˿΄΅·҃҄҅҆҇҈҉֑֖֛֢֣֤֚֒֓֔֕֗֘֙֜֝֞֟֠֡"
    \o "ְֱֲֳִֵֶַָׇֹֺֻּֽֿׁׂ֥֦֧֪ׅ֭֮֨֩֫֬֯ׄ״ۖۗۘۙۚۛۜ۝ۣ۟۠ۡۢۤۥۦ۪ۭۧۨ۫۬ަާިީުޫ"
    \o "ެޭޮޯް߲߫߬߭߮߯߰߱߳ߴߵߺ߽࢈࢐࢑࢙࢚࢛࢘࢜࢝࢞࢟ࣉ࣏࣐࣑࣒࣓࣊࣋࣌࣍࣎ࣔࣕࣖࣗࣘࣙࣚࣛࣜࣝࣞࣟ࣠࣡࣢ࣣࣦࣤࣥࣧ"
    \o "ࣰࣱࣲࣩ࣭࣮࣯ࣶࣹࣺࣨ࣪࣫࣬ࣳࣴࣵࣷࣸࣻࣼࣽࣾࣿঁ়ুূৃৄ্ৢৣ৾ઁં઼ુૂૃૄૅેૈ્ૢૣૺૻૼ૽૾૿ஂீ்ಁ಼ಿೆ"
    \o "ೌ್ೢೣඁ්ිීුූັິີຶື຺ຸູົຼໆ່້໊໋໌ໍ྄ཱྀྀྂྃ྆྇ྍྎྏྐྑྒྒྷྔྕྖྗྙྚྛྜྜྷྞྟྠྡྡྷྣྤྥྦྦྷ"
    \o "ྨྩྪྫྫྷྭྮྯྰྱྲླྴྵྶྷྸྐྵྺྻྼ࿆ႂႅႆႍႝჼ឴឵ិីឹឺុូួំ៉៊់៌៍៎៏័៑្៓ៗ៝ᢅᢆᢩᪧ᪰᪱᪲᪳᪴"
    \o "᪵᪶᪷᪸᪹᪺᪽᪻᪼᪾ᪿᫀ᫃᫄᫊᫁᫂᫅᫆᫇᫈᫉᫋ᫌᫍᫎᮀᮁᮢᮣᮤᮥᮨᮩ᮫ᮬᮭ᯦ᯨᯩᯭᯯᯰᯱ᳔᳕᳖᳗᳘᳙᳜᳝᳞᳟᳐᳑᳒᳚᳛᳠"
    \o "᳢᳣᳤᳥᳦᳧᳨᳭᳴᳸᳹ᶛᶜᶝᶞᶟᶠᶡᶢᶣᶤᶥᶦᶧᶨᶩᶪᶫᶬᶭᶮᶯᶰᶱᶲᶳᶴᶵᶶᶷᶸᶹᶺᶻᶼᶽᶾᶿ᷂᷊᷀᷁᷃᷄᷅᷆᷇᷈᷉᷋"
    \o "᷐᷎᷺᷏᷹᷽᷿᷷᷸᷌᷑᷒ᷓᷔᷕᷖᷗᷘᷙᷚᷛᷜᷝᷞᷟᷠᷡᷢᷣᷤᷥᷦᷧᷨᷩᷪᷫᷬᷭᷮᷯᷰᷱᷲᷳᷴ᷵᷻᷾᷶᷼᷍᾽᾿῀῁῍῎῏῝"
    \o "῞῟῭΅`´῾ₐₑₒₓₔₕₖₗₘₙₚₛₜ⃒⃓⃘⃙⃚⃐⃑⃔⃕⃖⃗⃛⃜⃝⃞⃟⃠⃡⃢⃣⃤⃥⃦⃪⃫⃨⃬⃭⃮⃯⃧⃩⃰⳯⳰⳱ⷠⷡⷢⷣ"
    \o "゙゚ⷤⷥⷦⷧⷨⷩⷪⷫⷬⷭⷮⷯⷰⷱⷲⷳⷴⷵⷶⷷⷸⷹⷺⷻⷼⷽⷾⷿ゛゜ゝゞーヽヾꓸꓹꓺꓻꓼꓽꚜꚝꚞꚟ꛰꛱ꞈ꞉꞊ꟲꟳꟴꟸꟹ꣄ꣅ꣠"
    \o "꣡꣢꣣꣤꣥꣦꣧꣨꣩꣪꣫꣬꣭꣮꣯꣰꣱ꣿꦀꦁꦂ꦳ꦶꦷꦸꦹꦼꦽꧏꧥꧦꪴꪰꪲꪳꪷꪸꪾ꪿꫁ꫝꫬꫭꫳꫴ꫶ꯥꯨ꯭﮲﮳﮴﮵﮶﮷﮸﮹﮺﮻﮼"
    \o "﮽﮾﮿﯀﯁﯂﻿ﾞﾟ￣￹￺￻"
    \o "ࢗ໎᫏᫐᫑᫒᫓᫔᫕᫖᫗᫘᫙᫚᫛᫜᫝᫠᫡᫢᫣᫤᫥᫦᫧᫨᫩᫪᫫꟱"

CaseIgnorable == CharSet(CaseIgnorableChars) \cup {Backtick}

Cased == LowerAlpha \cup UpperAlpha \cup CharSet(CasedLetters)

NonAsciiUpper == CharSet(UpperLetters)

LoweredOutside == CharSet(LettersLoweredOutside)

\* the lower-case letter of one character, whatever stands around it
LowerCh(c) ==
    IF c \in UpperAlpha
    THEN Ch("abcdefghijklmnopqrstuvwxyz", IndexOf("ABCDEFGHIJKLMNOPQRSTUVWXYZ", c))
    ELSE IF c \in NonAsciiUpper
    THEN Ch(LowerLetters, CHOOSE i \in 1..Len(UpperLetters) : Ch(UpperLetters, i) = c)
    ELSE IF c \in LoweredOutside
    THEN CHOOSE outside \in {} : TRUE
    ELSE c

\* the condition Final_Sigma at s[i]: the nearest character before it that is
\* not case-ignorable is a cased letter, and the nearest one after it is not
FinalSigma(s, i) ==
    LET before == {j \in 1..(i - 1) : Ch(s, j) \notin CaseIgnorable}
        after == {j \in (i + 1)..Len(s) : Ch(s, j) \notin CaseIgnorable}
    IN /\ before # {}
       /\ Ch(s, CHOOSE j \in before : \A k \in before : j >= k) \in Cased
       /\ \/ after = {}
          \/ Ch(s, CHOOSE j \in after : \A k \in after : j <= k) \notin Cased

\* String.prototype.toLowerCase: each letter by itself, but the capital sigma,
\* which becomes the final sigma where Final_Sigma holds
RECURSIVE LowerFrom(_, _)
LowerFrom(s, i) ==
    IF i > Len(s) THEN ""
    ELSE (IF Ch(s, i) = "Σ" /\ FinalSigma(s, i) THEN "ς" ELSE LowerCh(Ch(s, i)))
             \o LowerFrom(s, i + 1)

ToLowerCase(s) == LowerFrom(s, 1)

\* The characters above U+007F that a regular expression with the flag i
\* folds to another character, so that it and the other match each other
\* (Canonicalize of ECMAScript: the upper-case form when that is one character
\* and not an ASCII one), with the other at the same position of FoldedLetters;
\* only those are listed that can be written together with the other.
FoldingLetters ==
       "µàáâãäåæçèéêëìíîïðñòóôõöøùúûüýþƃƅƈƌƒƕƙơƣƥƨƭưƴƶƹƽƿǅǆǈǉǋǌǎǐǒǔǖ"
    \o "ǘǚǜǝǟǡǣǥǧǩǫǭǯǲǳǵǹǻǽǿʀʂʃʇʈʊʋʒʝʞάέήίαβγδεζηθικλμνξοπρςστυφχψωϊ"
    \o "ϋόύώϐϑϕϖϗϙϛϝϟϡϣϥϧϩϫϭϯϰϱϲϵϸϻҁҋҍҏґғҕҗҙқҝҟҡңҥҧҩҫҭүұҳҵҷҹһҽҿӂӄӆӈӊ"
    \o "ӌӎӏӑӓӕӗәӛӝӟӡӣӥӧөӫӭӯӱӳӵӷӹӻӽӿაბგდევზთიკლმნოპჟრსტუფქღყშჩცძწჭხჯჰ"
    \o "ჱჲჳჴჵჶჷჸჹჺჽჾჿᏸᏹᏺᏻᏼᏽᶎẁẃẅẇẉẋẍẏẑẓẕạảấầẩẫậắằẳẵặẹẻẽếềểễệỉịọỏốồổỗộ"
    \o "ớờởỡợụủứừửữựỳỵỷỹỻỽỿᾰᾱιῐῑῠῡῥↄⓐⓑⓒⓓⓔⓕⓖⓗⓘⓙⓚⓛⓜⓝⓞⓟⓠⓡⓢⓣⓤⓥⓦⓧⓨⓩⲁⲃⲅⲇⲉⲋ"
    \o "ⲍⲏⲑⲓⲕⲗⲙⲛⲝⲟⲡⲣⲥⲧⲩⲫⲭⲯⲱⲳⲵⲷⲹⲻⲽⲿⳁⳃⳅⳇⳉⳋⳍⳏⳑⳓⳕⳗⳙⳛⳝⳟⳡⳣⳬⳮⳳꚁꚃꚅꚇꚉꚋꚍꚏꚑꚓꚕꚗꚙ"
    \o "ꚛꞁꞃꞅꞇꞌꞑꞓꞔꞗꞙꞛꞝꞟꞡꞣꞥꞧꞩꞵꞷꞹꞻꞽꞿꟁꟃꟈꟊꟑꟗꟙꟶꮀꮁꮂꮃꮄꮅꮆꮇꮈꮉꮊꮋꮌꮍꮎꮏꮐꮑꮒꮓꮔꮕꮖꮗꮘꮙꮚ"
    \o "ꮛꮜꮝꮞꮟꮠꮡꮢꮣꮤꮥꮦꮧꮨꮩꮪꮫꮬꮭꮮꮯꮰꮱꮲꮳꮴꮵꮶꮷꮸꮹꮺꮻꮼꮽꮾꮿ"
    \o "ƛᲊꟍ꟏ꟓꟕꟛ"

FoldedLetters ==
       "ΜÀÁÂÃÄÅÆÇÈÉÊËÌÍÎÏÐÑÒÓÔÕÖØÙÚÛÜÝÞƂƄƇƋƑǶƘƠƢƤƧƬƯƳƵƸƼǷǄǄǇǇǊǊǍǏǑǓǕ"
    \o "ǗǙǛƎǞǠǢǤǦǨǪǬǮǱǱǴǸǺǼǾƦꟅƩꞱƮƱƲƷꞲꞰΆΈΉΊΑΒΓΔΕΖΗΘΙΚΛΜΝΞΟΠΡΣΣΤΥΦΧΨΩΪ"
    \o "ΫΌΎΏΒΘΦΠϏϘϚϜϞϠϢϤϦϨϪϬϮΚΡϹΕϷϺҀҊҌҎҐҒҔҖҘҚҜҞҠҢҤҦҨҪҬҮҰҲҴҶҸҺҼҾӁӃӅӇӉ"
    \o "ӋӍӀӐӒӔӖӘӚӜӞӠӢӤӦӨӪӬӮӰӲӴӶӸӺӼӾᲐᲑᲒᲓᲔᲕᲖᲗᲘᲙᲚᲛᲜᲝᲞᲟᲠᲡᲢᲣᲤᲥᲦᲧᲨᲩᲪᲫᲬᲭᲮᲯᲰ"
    \o "ᲱᲲᲳᲴᲵᲶᲷᲸᲹᲺᲽᲾᲿᏰᏱᏲᏳᏴᏵꟆẀẂẄẆẈẊẌẎẐẒẔẠẢẤẦẨẪẬẮẰẲẴẶẸẺẼẾỀỂỄỆỈỊỌỎỐỒỔỖỘ"
    \o "ỚỜỞỠỢỤỦỨỪỬỮỰỲỴỶỸỺỼỾᾸᾹΙῘῙῨῩῬↃⒶⒷⒸⒹⒺⒻⒼⒽⒾⒿⓀⓁⓂⓃⓄⓅⓆⓇⓈⓉⓊⓋⓌⓍⓎⓏⲀⲂⲄⲆⲈⲊ"
    \o "ⲌⲎⲐⲒⲔⲖⲘⲚⲜⲞⲠⲢⲤⲦⲨⲪⲬⲮⲰⲲⲴⲶⲸⲺⲼⲾⳀⳂⳄⳆⳈⳊⳌⳎⳐⳒⳔⳖⳘⳚⳜⳞⳠⳢⳫⳭⳲꚀꚂꚄꚆꚈꚊꚌꚎꚐꚒꚔꚖꚘ"
    \o "ꚚꞀꞂꞄꞆꞋꞐꞒꟄꞖꞘꞚꞜꞞꞠꞢꞤꞦꞨꞴꞶꞸꞺꞼꞾꟀꟂꟇꟉꟐꟖꟘꟵᎰᎱᎲᎳᎴᎵᎶᎷᎸᎹᎺᎻᎼᎽᎾᎿᏀᏁᏂᏃᏄᏅᏆᏇᏈᏉᏊ"
    \o "ᏋᏌᏍᏎᏏᏐᏑᏒᏓᏔᏕᏖᏗᏘᏙᏚᏛᏜᏝᏞᏟᏠᏡᏢᏣᏤᏥᏦᏧᏨᏩᏪᏫᏬᏭᏮᏯ"
    \o "ꟜᲉꟌ꟎꟒꟔Ꟛ"

\* The characters that can be written while what they fold to cannot.
LettersFoldedOutside ==
       "ÿƀƚƞʉʌϳրցւփքօֆᲀᲁᲂᲃᲄᲅᲆᲇᲈẛ"

FoldingSet == CharSet(FoldingLetters)
FoldedOutside == CharSet(LettersFoldedOutside)

\* Canonicalize(ch) of a regular expression with the flag i and without u
FoldCh(c) ==
    IF c \in LowerAlpha
    THEN Ch("ABCDEFGHIJKLMNOPQRSTUVWXYZ", IndexOf("abcdefghijklmnopqrstuvwxyz", c))
    ELSE IF c \in FoldingSet
    THEN Ch(FoldedLetters, CHOOSE i \in 1..Len(FoldingLetters) : Ch(FoldingLetters, i) = c)
    ELSE IF c \in FoldedOutside
    THEN CHOOSE outside \in {} : TRUE
    ELSE c

\* two strings a regular expression with the flag i takes for the same
FoldEqual(a, b) ==
    /\ Len(a) = Len(b)
    /\ \A k \in 1..Len(a) : FoldCh(Ch(a, k)) = FoldCh(Ch(b, k))

\* s.replace(pattern, replacement) with a string pattern: the first occurrence
ReplaceFirst(s, pattern, replacement) ==
    LET i == IndexOf(s, pattern)
    IN IF i = 0 THEN s
       ELSE SubSeq(s, 1, i - 1) \o replacement \o SubSeq(s, i + Len(pattern), Len(s))

\* s.replace(/c/g, replacement) for a one-character pattern
RECURSIVE ReplaceAllCh(_, _, _)
ReplaceAllCh(s, c, replacement) ==
    IF s = "" THEN ""
    ELSE (IF Ch(s, 1) = c THEN replacement ELSE Ch(s, 1))
             \o ReplaceAllCh(SubSeq(s, 2, Len(s)), c, replacement)

\* String.prototype.trim strips white space and line terminators
TrimSpace == WhiteSpace

RECURSIVE TrimStart(_)
TrimStart(s) == IF s # "" /\ Ch(s, 1) \in TrimSpace THEN TrimStart(SubSeq(s, 2, Len(s))) ELSE s

RECURSIVE TrimEnd(_)
TrimEnd(s) ==
    IF s # "" /\ Ch(s, Len(s)) \in TrimSpace THEN TrimEnd(SubSeq(s, 1, Len(s) - 1)) ELSE s

Trim(s) == TrimEnd(TrimStart(s))

\* length of the run of characters of set that starts at s[from]
RECURSIVE RunLen(_, _, _)
RunLen(s, from, set) ==
    IF from <= Len(s) /\ Ch(s, from) \in set THEN 1 + RunLen(s, from + 1, set) ELSE 0

(***************************************************************************)
(* Trace parser: parseStackTrace and deduplicateEntries.                   *)
(***************************************************************************)
\* [A-Za-z0-9._]
NamespaceChar == LowerAlpha \cup UpperAlpha \cup Digit \cup {".", "_"}
\* [A-Za-z0-9_<>$+[\]] and the backtick
MethodChar == LowerAlpha \cup UpperAlpha \cup Digit \cup {"_", Backtick, "<", ">", "$", "+", "[", "]"}

\* The matches of /at\s+([A-Za-z0-9._]+)\.(MethodChar+)\(/ that start at
\* line[p]: <<q, d, e>> with the namespace at q..d-1, the dot at d, the method
\* token at d+1..e-1 and the parenthesis at e.
FrameMatchesAt(line, p) ==
    IF ~(p + 1 <= Len(line) /\ SubSeq(line, p, p + 1) = "at") THEN {}
    ELSE UNION {UNION {{<<q, d, e>> : e \in {x \in (d + 2)..Len(line) :
                                                /\ AllIn(line, d + 1, x - 1, MethodChar)
                                                /\ Ch(line, x) = "("}} :
                       d \in {x \in (q + 1)..Len(line) :
                                 /\ AllIn(line, q, x - 1, NamespaceChar)
                                 /\ Ch(line, x) = "."}} :
                q \in {x \in (p + 3)..Len(line) : AllIn(line, p + 2, x - 1, WhiteSpace)}}

\* String.prototype.match without the g flag: the leftmost start, and there the
\* match the backtracking engine finds first, each greedy quantifier as long as
\* the rest of the pattern allows, decided left to right.  <<>> when none.
FrameMatch(line) ==
    LET starts == {p \in 1..Len(line) : FrameMatchesAt(line, p) # {}}
    IN IF starts = {} THEN <<>>
       ELSE LET p == CHOOSE x \in starts : \A y \in starts : x <= y
                ms == FrameMatchesAt(line, p)
                m == CHOOSE x \in ms : \A y \in ms :
                         \/ x[1] > y[1]
                         \/ x[1] = y[1] /\ x[2] > y[2]
                         \/ x[1] = y[1] /\ x[2] = y[2] /\ x[3] >= y[3]
            IN <<SubSeq(line, m[1], m[2] - 1), SubSeq(line, m[2] + 1, m[3] - 1)>>

\* .replace(/<backtick>\d+/g, "")
RECURSIVE StripArity(_)
StripArity(s) ==
    IF s = "" THEN ""
    ELSE IF Ch(s, 1) = Backtick /\ RunLen(s, 2, Digit) > 0
         THEN StripArity(SubSeq(s, 2 + RunLen(s, 2, Digit), Len(s)))
         ELSE Ch(s, 1) \o StripArity(SubSeq(s, 2, Len(s)))

\* .replace(/\[.*?\]/g, "")
RECURSIVE StripBrackets(_)
StripBrackets(s) ==
    IF s = "" THEN ""
    ELSE LET close == IndexOf(SubSeq(s, 2, Len(s)), "]")
         IN IF Ch(s, 1) = "[" /\ close > 0
            THEN StripBrackets(SubSeq(s, close + 2, Len(s)))
            ELSE Ch(s, 1) \o StripBrackets(SubSeq(s, 2, Len(s)))

\* .replace(/\$</g, "<")
RECURSIVE NormalizeAsync(_)
NormalizeAsync(s) ==
    IF s = "" THEN ""
    ELSE IF StartsWith(s, "$<")
         THEN "<" \o NormalizeAsync(SubSeq(s, 3, Len(s)))
         ELSE Ch(s, 1) \o NormalizeAsync(SubSeq(s, 2, Len(s)))

cleanMethodName(methodName) ==
    Split(NormalizeAsync(StripBrackets(StripArity(methodName))), ">")[1]

\* mutant: the whole namespace is compared, not its prefix
IsSystemNamespace_Exact(namespace) == namespace = "System"

\* namespace.startsWith("System")
IsSystemNamespace(namespace) == StartsWith(namespace, "System")

\* the loop of parseStackTrace over lines[i..], i 1-based (lineIndex is 0-based)
RECURSIVE ParseLines(_, _)
ParseLines(lines, i) ==
    IF i > Len(lines) THEN <<>>
    ELSE LET match == FrameMatch(lines[i])
         IN IF match = <<>> \/ IsSystemNamespace(match[1])
            THEN ParseLines(lines, i + 1)
            ELSE <<[namespace |-> match[1],
                    methodName |-> cleanMethodName(match[2]),
                    originalLine |-> lines[i],
                    lineIndex |-> i - 1]>> \o ParseLines(lines, i + 1)

parseStackTrace(stackTrace) == ParseLines(Split(stackTrace, "\n"), 1)

\* the template string ${entry.namespace}.${entry.methodName}
EntryKey(entry) == entry.namespace \o "." \o entry.methodName

\* mutant: only the entry just before is remembered
SeenBefore_Adjacent(entries, i) == {EntryKey(entries[j]) : j \in {i - 1} \cap (1..Len(entries))}

\* entries.filter with the closure's seen set: entry i is kept iff no earlier
\* entry has its key
SeenBefore(entries, i) == {EntryKey(entries[j]) : j \in 1..(i - 1)}

\* mutant: only the entry two places back is remembered
RECURSIVE DedupFrom_TwoBack(_, _)
DedupFrom_TwoBack(entries, i) ==
    IF i > Len(entries) THEN <<>>
    ELSE IF EntryKey(entries[i]) \in {EntryKey(entries[j]) : j \in {i - 2} \cap (1..Len(entries))}
         THEN DedupFrom_TwoBack(entries, i + 1)
         ELSE <<entries[i]>> \o DedupFrom_TwoBack(entries, i + 1)

RECURSIVE DedupFrom(_, _)
DedupFrom(entries, i) ==
    IF i > Len(entries) THEN <<>>
    ELSE IF EntryKey(entries[i]) \in SeenBefore(entries, i)
         THEN DedupFrom(entries, i + 1)
         ELSE <<entries[i]>> \o DedupFrom(entries, i + 1)

deduplicateEntries(entries) == DedupFrom(entries, 1)

(***************************************************************************)
(* File resolver: calculateNamespaceScore and findSourceFile.              *)
(***************************************************************************)
\* null, and a value that may have been null
Null == [null |-> TRUE]
Some(v) == [value |-> v]

Min(a, b) == IF a <= b THEN a ELSE b

\* filePath.replace(/\\/g, "/").toLowerCase()
NormalizePath(filePath) == ToLowerCase(ReplaceAllCh(filePath, "\\", "/"))

\* normalizedPath.replace(projectRootNorm, "").replace(/^\//, "")
RelativePath(filePath, projectRoot) ==
    LET stripped == ReplaceFirst(NormalizePath(filePath), NormalizePath(projectRoot), "")
    IN IF StartsWith(stripped, "/") THEN SubSeq(stripped, 2, Len(stripped)) ELSE stripped

\* namespace.split(".").slice(0, -1).map((p) => p.toLowerCase())
NamespaceParts(namespace) ==
    LET parts == Split(namespace, ".")
    IN [i \in 1..(Len(parts) - 1) |-> ToLowerCase(parts[i])]

\* The loop at "Count consecutive matches from the start of path": it has no
\* break, so it counts every position i at which pathParts[i] equals
\* namespaceParts[i].
ConsecutiveMatches(pathParts, namespaceParts) ==
    LET n == Min(Len(namespaceParts), Len(pathParts))
    IN Cardinality({i \in 1..n : ToLowerCase(pathParts[i]) = namespaceParts[i]})

\* the namespace parts (counted one by one) that occur in the relative path
TotalMatches(relativePath, namespaceParts) ==
    Cardinality({i \in 1..Len(namespaceParts) : Includes(relativePath, namespaceParts[i])})

calculateNamespaceScore(filePath, namespace, projectRoot) ==
    LET relativePath == RelativePath(filePath, projectRoot)
        namespaceParts == NamespaceParts(namespace)
        pathParts == Split(relativePath, "/")
    IN ConsecutiveMatches(pathParts, namespaceParts) * 100
           + TotalMatches(relativePath, namespaceParts) * 10

\* stdout.trim().split("\n").filter((p) => p.trim()).map((p) => p.trim())
RECURSIVE TrimmedNonEmpty(_)
TrimmedNonEmpty(strs) ==
    IF strs = <<>> THEN <<>>
    ELSE (IF Trim(Head(strs)) = "" THEN <<>> ELSE <<Trim(Head(strs))>>)
             \o TrimmedNonEmpty(Tail(strs))

FilePaths(stdout) == TrimmedNonEmpty(Split(Trim(stdout), "\n"))

\* mutant: an unstable sort that lets the last of the equal scores come first
RECURSIVE InsertByScore_Unstable(_, _)
InsertByScore_Unstable(sorted, x) ==
    IF sorted = <<>> THEN <<x>>
    ELSE IF Head(sorted).score - x.score > 0
         THEN <<Head(sorted)>> \o InsertByScore_Unstable(Tail(sorted), x)
         ELSE <<x>> \o sorted

\* scored.sort((a, b) => b.score - a.score): Array.prototype.sort is stable, so
\* x goes after every element whose score is not smaller than its own
RECURSIVE InsertByScore(_, _)
InsertByScore(sorted, x) ==
    IF sorted = <<>> THEN <<x>>
    ELSE IF Head(sorted).score - x.score >= 0
         THEN <<Head(sorted)>> \o InsertByScore(Tail(sorted), x)
         ELSE <<x>> \o sorted

RECURSIVE SortByScore(_)
SortByScore(scored) ==
    IF scored = <<>> THEN <<>>
    ELSE InsertByScore(SortByScore(SubSeq(scored, 1, Len(scored) - 1)), scored[Len(scored)])

\* search: what the command dir /s /b "<class>.cs" gave, [ok |-> TRUE, stdout |-> ...],
\* or [ok |-> FALSE] when execAsync rejected (non-zero exit, missing directory)
findSourceFile(namespace, projectRoot, search) ==
    IF ~search.ok THEN Null
    ELSE LET filePaths == FilePaths(search.stdout)
             scored == [i \in 1..Len(filePaths) |->
                           [path |-> filePaths[i],
                            score |-> calculateNamespaceScore(filePaths[i], namespace, projectRoot)]]
         IN IF Len(filePaths) = 0 THEN Null
            ELSE IF Len(filePaths) = 1 THEN Some(filePaths[1])
            ELSE Some(SortByScore(scored)[1].path)

\* const fileName = className + ".cs", className the last part of the namespace
SourceFileName(namespace) ==
    LET parts == Split(namespace, ".") IN parts[Len(parts)] \o ".cs"

(***************************************************************************)
(* Method locator: findMethodLineRange.                                    *)
(***************************************************************************)
\* (line.match(/c/g) || []).length for a one-character pattern
CountCh(s, c) == Cardinality({i \in 1..Len(s) : Ch(s, i) = c})

\* methodPattern.test(line).  Every part of the pattern before \s+ may match
\* the empty string (optional groups, \s*, .*?) and test() is not anchored, so
\* the line matches iff it holds a white space character, then the method
\* name in any letter case, then white space or none, then "(".
MethodPatternTest(line, methodName) ==
    \E i \in 1..Len(line) :
        /\ Ch(line, i) \in WhiteSpace
        /\ i + Len(methodName) <= Len(line)
        /\ FoldEqual(SubSeq(line, i + 1, i + Len(methodName)), methodName)
        /\ LET after == i + Len(methodName) + 1
           IN Ch(line, after + RunLen(line, after, WhiteSpace)) = "("

\* mutant: the loop does not stop at the first line that matches
MethodStartLine_Last(lines, methodName) ==
    LET hits == {i \in 1..Len(lines) : MethodPatternTest(lines[i], methodName)}
    IN IF hits = {} THEN -1 ELSE (CHOOSE i \in hits : \A j \in hits : i >= j) - 1

\* the first loop: the 0-based index of the first line that matches, -1 when none
MethodStartLine(lines, methodName) ==
    LET hits == {i \in 1..Len(lines) : MethodPatternTest(lines[i], methodName)}
    IN IF hits = {} THEN -1 ELSE (CHOOSE i \in hits : \A j \in hits : i <= j) - 1

\* mutant: the body ends at the first line that holds a closing brace
RECURSIVE ScanBraces_FirstClose(_, _, _, _, _)
ScanBraces_FirstClose(lines, i, braceCount, foundOpeningBrace, methodEndLine) ==
    IF i >= Len(lines) THEN methodEndLine
    ELSE IF CountCh(lines[i + 1], "}") > 0 THEN i
    ELSE ScanBraces_FirstClose(lines, i + 1, braceCount, foundOpeningBrace, methodEndLine)

\* the second loop from 0-based line i on: the value of methodEndLine after it
RECURSIVE ScanBraces(_, _, _, _, _)
ScanBraces(lines, i, braceCount, foundOpeningBrace, methodEndLine) ==
    IF i >= Len(lines) THEN methodEndLine
    ELSE LET count == braceCount + CountCh(lines[i + 1], "{") - CountCh(lines[i + 1], "}")
             found == foundOpeningBrace \/ count > 0
         IN IF found /\ count = 0 THEN i
            ELSE ScanBraces(lines, i + 1, count, found, methodEndLine)

\* file: [exists |-> FALSE], [exists |-> TRUE, content |-> the text of the file],
\* or [exists |-> TRUE, error |-> e] when readFileSync throws e, which is caught
findMethodLineRange(file, methodName) ==
    IF ~file.exists THEN Null
    ELSE IF "content" \notin DOMAIN file THEN Null
    ELSE LET lines == Split(file.content, "\n")
             methodStartLine == MethodStartLine(lines, methodName)
         IN IF methodStartLine = -1 THEN Null
            ELSE [start |-> methodStartLine + 1,
                  end |-> Min(ScanBraces(lines, methodStartLine, 0, FALSE, methodStartLine) + 1,
                              Len(lines))]

(***************************************************************************)
(* JavaScript numbers and Dates.  A time value counts the milliseconds     *)
(* since the epoch and does not fit 32 bits: the model keeps it as whole    *)
(* days and the milliseconds of the day, day * MsPerDay + ms with ms in     *)
(* 0..MsPerDay-1.  An invalid Date has the time value NaN.                  *)
(***************************************************************************)
MsPerDay == 86400000

\* a time value lies within 8.64e15 ms of the epoch, 100,000,000 days
MaxDay == 100000000

\* kNone of V8's date parser, kMaxInt: a field that was not set
kNone == 2147483647

InvalidDate == [valid |-> FALSE, day |-> 0, ms |-> 0]
DateOf(day, ms) == [valid |-> TRUE, day |-> day, ms |-> ms]

\* TimeClip: NaN beyond the range of a time value
TimeClip(day, ms) ==
    IF (day >= 0 - MaxDay /\ day < MaxDay) \/ (day = MaxDay /\ ms = 0)
    THEN DateOf(day, ms)
    ELSE InvalidDate

\* the time <<day, ms>> that is s seconds after <<day, ms>>
PlusSeconds(day, ms, s) ==
    LET total == ms \div 1000 + (s % 86400)
    IN <<day + s \div 86400 + total \div 86400, (total % 86400) * 1000 + (ms % 1000)>>

\* a is not before b, on two times <<day, ms>>
NotBefore(a, b) == a[1] > b[1] \/ (a[1] = b[1] /\ a[2] >= b[2])

\* days since the epoch of the civil date y-m-d; a day past the end of the
\* month runs into the next month, as MakeDay does
DaysFromCivil(y, m, d) ==
    LET yy == IF m <= 2 THEN y - 1 ELSE y
        era == yy \div 400
        yoe == yy - era * 400
        mp == IF m > 2 THEN m - 3 ELSE m + 9
        doy == (153 * mp + 2) \div 5 + d - 1
        doe == yoe * 365 + yoe \div 4 - yoe \div 100 + doy
    IN era * 146097 + doe - 719468

\* the civil date <<y, m, d>> of a day since the epoch
CivilFromDays(z) ==
    LET \* the day doy of the year y that begins in March, in its month mp
        OfMonth(y, doy, mp) ==
            <<IF mp < 10 THEN y ELSE y + 1,
              IF mp < 10 THEN mp + 3 ELSE mp - 9,
              doy - (153 * mp + 2) \div 5 + 1>>
        OfDay(y, doy) == OfMonth(y, doy, (5 * doy + 2) \div 153)
        \* the day doe of the era, in its year yoe
        OfYear(era, doe, yoe) ==
            OfDay(yoe + era * 400, doe - (365 * yoe + yoe \div 4 - yoe \div 100))
        OfEra(era, doe) ==
            OfYear(era, doe, (doe - doe \div 1460 + doe \div 36524 - doe \div 146096) \div 365)
    IN OfEra((z + 719468) \div 146097, (z + 719468) % 146097)

\* the decimal digits of n, at least width of them
RECURSIVE Pad(_, _)
Pad(n, width) ==
    IF n < 10 /\ width <= 1 THEN Ch("0123456789", n + 1)
    ELSE Pad(n \div 10, width - 1) \o Ch("0123456789", (n % 10) + 1)

\* the number a string of decimal digits denotes
RECURSIVE DigitsValue(_)
DigitsValue(s) ==
    IF s = "" THEN 0
    ELSE DigitsValue(SubSeq(s, 1, Len(s) - 1)) * 10 + (IndexOf("0123456789", Ch(s, Len(s))) - 1)

\* the year of an ISO string: four digits from 0 to 9999, else a sign and six
ISOYear(y) ==
    IF y \in 0..9999 THEN Pad(y, 4)
    ELSE IF y < 0 THEN "-" \o Pad(0 - y, 6)
    ELSE "+" \o Pad(y, 6)

\* date.toISOString().split("T")[0] of a valid Date: the UTC calendar date;
\* toISOString throws a RangeError on an invalid Date, which the callers of
\* this operator test before
ToISODate(date) ==
    LET Format(c) == ISOYear(c[1]) \o "-" \o Pad(c[2], 2) \o "-" \o Pad(c[3], 2)
    IN Format(CivilFromDays(date.day))

\* /^\d{4}-\d{2}-\d{2}$/.test(s)
IsDateShaped(s) ==
    /\ Len(s) = 10
    /\ AllIn(s, 1, 4, Digit) /\ Ch(s, 5) = "-"
    /\ AllIn(s, 6, 7, Digit) /\ Ch(s, 8) = "-"
    /\ AllIn(s, 9, 10, Digit)

(***************************************************************************)
(* The time zone of the process.  A zone is [offset, transitions]: offset   *)
(* is the seconds local time is ahead of UTC before the first transition,   *)
(* and a transition [day, ms, offset] is the instant from which on another  *)
(* offset holds; the transitions are in the order of time.                  *)
(***************************************************************************)
\* the offset that holds before transition i
OffsetBefore(zone, i) == IF i = 1 THEN zone.offset ELSE zone.transitions[i - 1].offset

\* the offset of local time at the instant <<day, ms>>
OffsetAt(zone, day, ms) ==
    LET past == {i \in 1..Len(zone.transitions) :
                     NotBefore(<<day, ms>>, <<zone.transitions[i].day, zone.transitions[i].ms>>)}
    IN IF past = {} THEN zone.offset
       ELSE zone.transitions[CHOOSE i \in past : \A j \in past : i >= j].offset

\* LocalTime(t): the wall clock <<day, ms>> at the instant <<day, ms>>
LocalTime(zone, day, ms) == PlusSeconds(day, ms, OffsetAt(zone, day, ms))

\* the offset taken for the wall clock <<day, ms>>: a wall clock that a
\* transition skips or repeats is read with the offset before the transition
OffsetOfLocal(zone, day, ms) ==
    LET Later(i) == IF zone.transitions[i].offset >= OffsetBefore(zone, i)
                    THEN zone.transitions[i].offset ELSE OffsetBefore(zone, i)
        past == {i \in 1..Len(zone.transitions) :
                     NotBefore(<<day, ms>>,
                               PlusSeconds(zone.transitions[i].day, zone.transitions[i].ms, Later(i)))}
    IN IF past = {} THEN zone.offset
       ELSE zone.transitions[CHOOSE i \in past : \A j \in past : i >= j].offset

\* UTC(t) and TimeClip: the Date of the wall clock <<day, ms>>
DateOfLocal(zone, day, ms) ==
    LET Clip(utc) == TimeClip(utc[1], utc[2])
    IN Clip(PlusSeconds(day, ms, 0 - OffsetOfLocal(zone, day, ms)))

\* date.setHours(0, 0, 0, 0): midnight of the local day
SetHoursZero(date, zone) ==
    IF ~date.valid THEN date
    ELSE DateOfLocal(zone, LocalTime(zone, date.day, date.ms)[1], 0)

\* date.setFullYear(date.getFullYear() - 1) on a valid Date: the same local
\* month, day and time of day, one year earlier
MinusOneYear(date, zone) ==
    LET YearBefore(local, c) == DateOfLocal(zone, DaysFromCivil(c[1] - 1, c[2], c[3]), local[2])
        OfLocal(local) == YearBefore(local, CivilFromDays(local[1]))
    IN OfLocal(LocalTime(zone, date.day, date.ms))

\* a >= b on two Dates: false when either is invalid (NaN)
DateGE(a, b) == a.valid /\ b.valid /\ NotBefore(<<a.day, a.ms>>, <<b.day, b.ms>>)

(***************************************************************************)
(* new Date(string): the date parser of V8.  A string is first read as an   *)
(* ES5 date-time string; where that reading stops with something left, the  *)
(* legacy parser goes on from the token it stopped at.  U+0000 ends the     *)
(* input of the parser and is in no string of the model.                    *)
(***************************************************************************)
\* the characters below "A", which do not make a word of the parser
BelowA ==
    {"\t", "\n", "\r", "\f", "\""}
        \cup CharSet("")
        \cup CharSet(" !#$%&'()*+,-./0123456789:;<=>?@")

\* KeywordTable: the first three characters of a word, its type and value
KeywordTable ==
    <<[word |-> "jan", type |-> "MONTH_NAME", value |-> 1],
      [word |-> "feb", type |-> "MONTH_NAME", value |-> 2],
      [word |-> "mar", type |-> "MONTH_NAME", value |-> 3],
      [word |-> "apr", type |-> "MONTH_NAME", value |-> 4],
      [word |-> "may", type |-> "MONTH_NAME", value |-> 5],
      [word |-> "jun", type |-> "MONTH_NAME", value |-> 6],
      [word |-> "jul", type |-> "MONTH_NAME", value |-> 7],
      [word |-> "aug", type |-> "MONTH_NAME", value |-> 8],
      [word |-> "sep", type |-> "MONTH_NAME", value |-> 9],
      [word |-> "oct", type |-> "MONTH_NAME", value |-> 10],
      [word |-> "nov", type |-> "MONTH_NAME", value |-> 11],
      [word |-> "dec", type |-> "MONTH_NAME", value |-> 12],
      [word |-> "am", type |-> "AM_PM", value |-> 0],
      [word |-> "pm", type |-> "AM_PM", value |-> 12],
      [word |-> "ut", type |-> "TIME_ZONE_NAME", value |-> 0],
      [word |-> "utc", type |-> "TIME_ZONE_NAME", value |-> 0],
      [word |-> "z", type |-> "TIME_ZONE_NAME", value |-> 0],
      [word |-> "gmt", type |-> "TIME_ZONE_NAME", value |-> 0],
      [word |-> "cdt", type |-> "TIME_ZONE_NAME", value |-> 0 - 5],
      [word |-> "cst", type |-> "TIME_ZONE_NAME", value |-> 0 - 6],
      [word |-> "edt", type |-> "TIME_ZONE_NAME", value |-> 0 - 4],
      [word |-> "est", type |-> "TIME_ZONE_NAME", value |-> 0 - 5],
      [word |-> "mdt", type |-> "TIME_ZONE_NAME", value |-> 0 - 6],
      [word |-> "mst", type |-> "TIME_ZONE_NAME", value |-> 0 - 7],
      [word |-> "pdt", type |-> "TIME_ZONE_NAME", value |-> 0 - 7],
      [word |-> "pst", type |-> "TIME_ZONE_NAME", value |-> 0 - 8],
      [word |-> "t", type |-> "TIME_SEPARATOR", value |-> 0]>>

\* AsciiAlphaToLower on each character of s: only A to Z can become a letter
\* of a keyword
RECURSIVE AsciiLower(_)
AsciiLower(s) ==
    IF s = "" THEN ""
    ELSE (IF Ch(s, 1) \in UpperAlpha
          THEN Ch("abcdefghijklmnopqrstuvwxyz", IndexOf("ABCDEFGHIJKLMNOPQRSTUVWXYZ", Ch(s, 1)))
          ELSE Ch(s, 1))
             \o AsciiLower(SubSeq(s, 2, Len(s)))

\* KeywordTable::Lookup: the entry whose word is the prefix read; a word
\* longer than the entry's is taken for a month name only
Lookup(prefix, length) ==
    LET Found(table, hits) ==
            IF hits = {} THEN [word |-> "", type |-> "INVALID", value |-> 0]
            ELSE table[CHOOSE i \in hits : TRUE]
        In(table) ==
            Found(table, {i \in 1..Len(table) :
                              /\ table[i].word = prefix
                              /\ (length <= 3 \/ table[i].type = "MONTH_NAME")})
    IN In(KeywordTable)

\* a token: its kind, the type of a keyword or the character of a symbol, its
\* number, its length, and the position of the input behind it
Token(kind, type, value, length, next) ==
    [kind |-> kind, type |-> type, value |-> value, length |-> length, next |-> next]

\* SkipParentheses from the "(" at p: the position behind the matching ")"
RECURSIVE SkipParentheses(_, _, _)
SkipParentheses(s, p, balance) ==
    LET b == IF Ch(s, p) = ")" THEN balance - 1
             ELSE IF Ch(s, p) = "(" THEN balance + 1
             ELSE balance
    IN IF b > 0 /\ p + 1 <= Len(s) THEN SkipParentheses(s, p + 1, b) ELSE p + 1

\* ReadWord: the length of the run of characters from "A" on that are not
\* white space
RECURSIVE WordLen(_, _)
WordLen(s, p) ==
    IF p <= Len(s) /\ Ch(s, p) \notin BelowA /\ Ch(s, p) \notin WhiteSpace
    THEN 1 + WordLen(s, p + 1)
    ELSE 0

\* DateStringTokenizer::Scan: the token that starts at s[p].  A number keeps
\* nine significant digits; its length counts every digit.
Scan(s, p) ==
    LET c == Ch(s, p)
        \* a number of n digits, zeros of them leading zeros
        NumberOf(n, zeros) ==
            Token("Number", "",
                  DigitsValue(SubSeq(s, p + zeros, p + zeros + Min(n - zeros, 9) - 1)), n, p + n)
        \* a word of n characters
        KeywordOf(n, keyword) == Token("Keyword", keyword.type, keyword.value, n, p + n)
        WordOf(n) == KeywordOf(n, Lookup(AsciiLower(SubSeq(s, p, p + Min(n, 3) - 1)), n))
    IN IF p > Len(s) THEN Token("EndOfInput", "", 0, 0, p)
       ELSE IF c \in Digit THEN NumberOf(RunLen(s, p, Digit), RunLen(s, p, {"0"}))
       ELSE IF c \in {":", "-", "+", ".", ")"} THEN Token("Symbol", c, 0, 1, p + 1)
       ELSE IF c \notin BelowA /\ c \notin WhiteSpace THEN WordOf(WordLen(s, p))
       ELSE IF c \in WhiteSpace THEN Token("WhiteSpace", "", 0, 1, p + 1)
       ELSE IF c = "(" THEN Token("Unknown", "", 0, 1, SkipParentheses(s, p, 0))
       ELSE Token("Unknown", "", 0, 1, p + 1)

IsSymbol(token, c) == token.kind = "Symbol" /\ token.type = c
IsAsciiSign(token) == token.kind = "Symbol" /\ token.type \in {"+", "-"}
IsFixedNumber(token, length) == token.kind = "Number" /\ token.length = length
IsKeywordType(token, type) == token.kind = "Keyword" /\ token.type = type
IsKeywordZ(token) == IsKeywordType(token, "TIME_ZONE_NAME") /\ token.length = 1

\* ReadMilliseconds: the first three digits of a fraction of a second
ReadMilliseconds(token) ==
    IF token.length = 1 THEN token.value * 100
    ELSE IF token.length = 2 THEN token.value * 10
    ELSE IF token.length = 3 THEN token.value
    ELSE token.value \div 10^(Min(token.length, 9) - 3)

\* the composers of the day, the time and the time zone before anything is
\* read; read is has_read_number of Parse
NoComposers ==
    [comp |-> <<>>, named_month |-> kNone, is_iso_date |-> FALSE,
     time |-> <<>>, hour_offset |-> kNone,
     sign |-> kNone, hour |-> kNone, minute |-> kNone, read |-> FALSE]

\* TimeZoneComposer::Set
SetZone(st, offset_in_hours) ==
    [st EXCEPT !.sign = IF offset_in_hours < 0 THEN 0 - 1 ELSE 1,
               !.hour = IF offset_in_hours < 0 THEN 0 - offset_in_hours ELSE offset_in_hours,
               !.minute = 0]

\* DateStringTokenizer: the tokens of s from s[p] on, EndOfInput the last
RECURSIVE Tokens(_, _)
Tokens(s, p) ==
    LET Rest(token) ==
            IF token.kind = "EndOfInput" THEN <<token>> ELSE <<token>> \o Tokens(s, token.next)
    IN Rest(Scan(s, p))

\* the token at index i of the tokens ts; behind the end the tokenizer goes
\* on giving EndOfInput
At(ts, i) == ts[IF i < Len(ts) THEN i ELSE Len(ts)]

\* what ParseES5DateTime returns: an invalid token, or the index of the next
\* token it did not handle (EndOfInput when it read the whole string), the
\* index of the last token the tokenizer gave, and the composers
ES5Invalid == [invalid |-> TRUE]
ES5Unhandled(i, st) == [invalid |-> FALSE, at |-> i, scanned |-> i, st |-> st]

\* the string is an ES5 date-time string: a date alone is UTC
ES5Done(ts, st) ==
    ES5Unhandled(Len(ts),
                 [(IF st.hour = kNone /\ st.time = <<>> THEN SetZone(st, 0) ELSE st)
                      EXCEPT !.is_iso_date = TRUE])

\* the optional time zone designation from token i on: Z or +hh:mm or +hhmm,
\* and nothing behind it
ES5Zone(ts, i, st) ==
    LET t == At(ts, i)
        signed == [st EXCEPT !.sign = IF t.type = "+" THEN 1 ELSE 0 - 1]
        h == At(ts, i + 1)
        colon == At(ts, i + 2)
        m == At(ts, i + 3)
        \* the index behind the designation and the composers with it, <<>>
        \* when the designation is not one
        read == IF IsKeywordZ(t) THEN <<i + 1, SetZone(st, 0)>>
                ELSE IF ~IsAsciiSign(t) THEN <<i, st>>
                ELSE IF IsFixedNumber(h, 4)
                THEN IF (h.value \div 100) \in 0..23 /\ (h.value % 100) \in 0..59
                     THEN <<i + 2, [signed EXCEPT !.hour = h.value \div 100,
                                                  !.minute = h.value % 100]>>
                     ELSE <<>>
                ELSE IF ~IsFixedNumber(h, 2) \/ h.value \notin 0..23 THEN <<>>
                ELSE IF ~IsSymbol(colon, ":") THEN <<>>
                ELSE IF ~IsFixedNumber(m, 2) \/ m.value \notin 0..59 THEN <<>>
                ELSE <<i + 4, [signed EXCEPT !.hour = h.value, !.minute = m.value]>>
        AtEnd(designation) ==
            IF designation = <<>> THEN ES5Invalid
            ELSE IF At(ts, designation[1]).kind = "EndOfInput" THEN ES5Done(ts, designation[2])
            ELSE ES5Invalid
    IN AtEnd(read)

\* the time string behind the T: HH:mm, HH:mm:ss or HH:mm:ss.sss, the hour 24
\* only with zeros behind it
ES5Time(ts, i, st) ==
    LET h == At(ts, i)
        hour_is_24 == h.value = 24
        c1 == At(ts, i + 1)
        m == At(ts, i + 2)
        c2 == At(ts, i + 3)
        sec == At(ts, i + 4)
        dot == At(ts, i + 5)
        frac == At(ts, i + 6)
        \* the index behind the time and its components, <<>> when the time
        \* is not one
        read == IF ~IsFixedNumber(h, 2) \/ h.value \notin 0..24 THEN <<>>
                ELSE IF ~IsSymbol(c1, ":") THEN <<>>
                ELSE IF ~IsFixedNumber(m, 2) \/ m.value \notin 0..59 \/ (hour_is_24 /\ m.value > 0)
                THEN <<>>
                ELSE IF ~IsSymbol(c2, ":") THEN <<i + 3, <<h.value, m.value>>>>
                ELSE IF ~IsFixedNumber(sec, 2) \/ sec.value \notin 0..59
                        \/ (hour_is_24 /\ sec.value > 0)
                THEN <<>>
                ELSE IF ~IsSymbol(dot, ".") THEN <<i + 5, <<h.value, m.value, sec.value>>>>
                ELSE IF frac.kind # "Number" \/ (hour_is_24 /\ frac.value > 0) THEN <<>>
                ELSE <<i + 7, <<h.value, m.value, sec.value, ReadMilliseconds(frac)>>>>
        Zone(time) ==
            IF time = <<>> THEN ES5Invalid
            ELSE ES5Zone(ts, time[1], [st EXCEPT !.time = time[2]])
    IN Zone(read)

\* behind the date: the end, or T and the time string, or something else
ES5AfterDate(ts, i, st) ==
    LET t == At(ts, i)
    IN IF IsKeywordType(t, "TIME_SEPARATOR") THEN ES5Time(ts, i + 1, st)
       ELSE IF t.kind = "EndOfInput" THEN ES5Done(ts, st)
       ELSE ES5Unhandled(i, st)

\* behind the year: -MM and -DD
ES5MonthDay(ts, i, st) ==
    LET dash1 == At(ts, i)
        m == At(ts, i + 1)
        withMonth == [st EXCEPT !.comp = Append(@, m.value)]
        dash2 == At(ts, i + 2)
        d == At(ts, i + 3)
        \* the index behind the date and the composers with it, or the index
        \* of the number that is no month or no day
        read == IF ~IsSymbol(dash1, "-") THEN <<TRUE, i, st>>
                ELSE IF ~IsFixedNumber(m, 2) \/ m.value \notin 1..12 THEN <<FALSE, i + 1, st>>
                ELSE IF ~IsSymbol(dash2, "-") THEN <<TRUE, i + 2, withMonth>>
                ELSE IF ~IsFixedNumber(d, 2) \/ d.value \notin 1..31
                THEN <<FALSE, i + 3, withMonth>>
                ELSE <<TRUE, i + 4, [withMonth EXCEPT !.comp = Append(@, d.value)]>>
        AfterDate(date) ==
            IF date[1] THEN ES5AfterDate(ts, date[2], date[3])
            ELSE ES5Unhandled(date[2], date[3])
    IN AfterDate(read)

\* ParseES5DateTime: the year of four digits, or of a sign and six.  The
\* year of minus zero hands the sign back to the legacy parser when the
\* tokenizer has given the six zeros already.
ParseES5DateTime(ts) ==
    LET first == At(ts, 1)
        year == At(ts, 2)
    IN IF IsAsciiSign(first)
       THEN IF ~IsFixedNumber(year, 6) THEN ES5Unhandled(1, NoComposers)
            ELSE IF first.type = "-" /\ year.value = 0
            THEN [ES5Unhandled(1, NoComposers) EXCEPT !.scanned = 2]
            ELSE ES5MonthDay(ts, 3,
                             [NoComposers EXCEPT !.comp = <<IF first.type = "-" THEN 0 - year.value
                                                            ELSE year.value>>])
       ELSE IF IsFixedNumber(first, 4)
       THEN ES5MonthDay(ts, 2, [NoComposers EXCEPT !.comp = <<first.value>>])
       ELSE ES5Unhandled(1, NoComposers)

\* TimeComposer::IsExpecting on the components read so far
TimeIsExpecting(time, n) ==
    \/ Len(time) = 1 /\ n \in 0..59
    \/ Len(time) = 2 /\ n \in 0..59
    \/ Len(time) = 3 /\ n \in 0..999

\* TimeComposer::AddFinal: n and zeros up to four components
TimeAddFinal(time, n) ==
    IF Len(time) >= 4 THEN time
    ELSE LET added == Append(time, n)
         IN added \o [i \in 1..(4 - Len(added)) |-> 0]

\* what the legacy parser returns when it gives up
LegacyFailed == [failed |-> TRUE]

\* the loop of Parse from the token on, i the index of the last token the
\* tokenizer gave: the composers when the input ends
RECURSIVE Legacy(_, _, _, _)
Legacy(ts, token, i, st) ==
    LET n == token.value
        peek == At(ts, i + 1)
        second == At(ts, i + 2)
        numbered == [st EXCEPT !.read = TRUE]
        \* behind a number that no ":" follows: the token behind a "."
        p == IF IsSymbol(peek, ".") THEN i + 2 ELSE i + 1
        behind == At(ts, p)
        \* behind a sign: the number of the offset, if there is one
        signed == [numbered EXCEPT !.sign = IF token.type = "+" THEN 1 ELSE 0 - 1]
        hasNumber == peek.kind = "Number"
        q == IF hasNumber THEN i + 2 ELSE i + 1
        length == IF hasNumber THEN peek.length ELSE 0
        offset == IF hasNumber THEN peek.value ELSE 0
        \* <<index, composers>> to go on with, <<>> when the parser gives up
        step ==
            IF token.kind = "Number"
            THEN IF IsSymbol(peek, ":")
                 THEN IF IsSymbol(second, ":")
                      THEN IF st.time # <<>> THEN <<>>
                           ELSE <<i + 3, [numbered EXCEPT !.time = <<n, 0>>]>>
                      ELSE IF Len(st.time) >= 4 THEN <<>>
                      ELSE <<IF IsSymbol(second, ".") THEN i + 3 ELSE i + 2,
                             [numbered EXCEPT !.time = Append(@, n)]>>
                 ELSE IF IsSymbol(peek, ".") /\ TimeIsExpecting(st.time, n)
                 THEN IF behind.kind # "Number" THEN <<>>
                      ELSE <<p + 1,
                             [numbered EXCEPT
                                  !.time = TimeAddFinal(Append(@, n), ReadMilliseconds(behind))]>>
                 ELSE IF st.hour # kNone /\ st.minute = kNone /\ n \in 0..59
                 THEN <<p, [numbered EXCEPT !.minute = n]>>
                 ELSE IF TimeIsExpecting(st.time, n)
                 THEN IF \/ behind.kind \in {"EndOfInput", "WhiteSpace"}
                         \/ IsKeywordZ(behind)
                         \/ IsAsciiSign(behind)
                      THEN <<p, [numbered EXCEPT !.time = TimeAddFinal(@, n)]>>
                      ELSE <<>>
                 ELSE IF Len(st.comp) >= 3 THEN <<>>
                 ELSE <<IF IsSymbol(behind, "-") THEN p + 1 ELSE p,
                        [numbered EXCEPT !.comp = Append(@, n)]>>
            ELSE IF token.kind = "Keyword"
            THEN IF token.type = "AM_PM" /\ st.time # <<>>
                 THEN <<i + 1, [st EXCEPT !.hour_offset = n]>>
                 ELSE IF token.type = "MONTH_NAME"
                 THEN <<IF IsSymbol(peek, "-") THEN i + 2 ELSE i + 1,
                        [st EXCEPT !.named_month = n]>>
                 ELSE IF token.type = "TIME_ZONE_NAME" /\ st.read
                 THEN <<i + 1, SetZone(st, n)>>
                 ELSE IF st.read \/ peek.kind = "Number" THEN <<>>
                 ELSE <<i + 1, st>>
            ELSE IF IsAsciiSign(token) /\ ((st.hour = 0 /\ st.minute = 0) \/ st.time # <<>>)
            THEN IF IsSymbol(At(ts, q), ":")
                 THEN <<q, [signed EXCEPT !.hour = offset, !.minute = kNone]>>
                 ELSE IF length \in {1, 2}
                 THEN <<q, [signed EXCEPT !.hour = offset, !.minute = 0]>>
                 ELSE IF length \in {3, 4}
                 THEN <<q, [signed EXCEPT !.hour = offset \div 100, !.minute = offset % 100]>>
                 ELSE <<>>
            ELSE IF (IsAsciiSign(token) \/ IsSymbol(token, ")")) /\ st.read THEN <<>>
            ELSE <<i + 1, st>>
        Continue(next) ==
            IF next = <<>> THEN LegacyFailed
            ELSE Legacy(ts, At(ts, next[1]), next[1], next[2])
    IN IF token.kind = "EndOfInput" THEN [failed |-> FALSE] @@ st
       ELSE Continue(step)

\* DayComposer::Write: <<year, month, day>>, <<>> when the day is not one
DayWrite(st) ==
    LET IsDay(x) == x \in 1..31
        FullYear(year) ==
            IF st.is_iso_date THEN year
            ELSE IF year \in 0..49 THEN year + 2000
            ELSE IF year \in 50..99 THEN year + 1900
            ELSE year
        Checked(year, month, day) ==
            IF month \in 1..12 /\ IsDay(day) THEN <<FullYear(year), month, day>> ELSE <<>>
        Ordered(comp) ==
            IF st.named_month = kNone
            THEN IF st.is_iso_date \/ ~IsDay(comp[1])
                 THEN Checked(comp[1], comp[2], comp[3])
                 ELSE Checked(comp[3], comp[1], comp[2])
            ELSE IF ~IsDay(comp[1])
            THEN Checked(comp[1], st.named_month, comp[2])
            ELSE Checked(comp[2], st.named_month, comp[1])
    IN IF st.comp = <<>> THEN <<>>
       ELSE Ordered(st.comp \o [i \in 1..(3 - Len(st.comp)) |-> 1])

\* TimeComposer::Write: <<hour, minute, second, millisecond>>, <<>> when the
\* time is not one
TimeWrite(st) ==
    LET comp == st.time \o [i \in 1..(4 - Len(st.time)) |-> 0]
        hour == IF st.hour_offset = kNone THEN comp[1] ELSE (comp[1] % 12) + st.hour_offset
    IN IF st.hour_offset # kNone /\ comp[1] \notin 0..12 THEN <<>>
       ELSE IF hour \in 0..23 /\ comp[2] \in 0..59 /\ comp[3] \in 0..59 /\ comp[4] \in 0..999
       THEN <<hour, comp[2], comp[3], comp[4]>>
       ELSE IF hour = 24 /\ comp[2] = 0 /\ comp[3] = 0 /\ comp[4] = 0 THEN <<24, 0, 0, 0>>
       ELSE <<>>

\* TimeZoneComposer::Write: [local |-> TRUE] without a zone, else the seconds
\* ahead of UTC, computed in 32 bits: the parser fails when hour * 3600 +
\* minute * 60, taken as an unsigned number of 32 bits, is above 2^31 - 1
ZoneWrite(st) ==
    LET hour == IF st.hour = kNone THEN 0 ELSE st.hour
        minute == IF st.minute = kNone THEN 0 ELSE st.minute
        low == (hour % 65536) * 3600 + minute * 60
        high == ((hour \div 65536) * 3600 + low \div 65536) % 65536
        total_seconds == high * 65536 + (low % 65536)
    IN IF st.sign = kNone THEN [failed |-> FALSE, local |-> TRUE]
       ELSE IF high >= 32768 THEN [failed |-> TRUE]
       ELSE [failed |-> FALSE, local |-> FALSE,
             offset |-> IF st.sign < 0 THEN 0 - total_seconds ELSE total_seconds]

\* new Date(s): the Date of the string s in the time zone of the process.  A
\* string without a time zone is local time, but for a date alone in the ES5
\* form, which is UTC.  MakeDay gives NaN for a year beyond a million.
NewDate(s, zone) ==
    LET Clip(utc) == TimeClip(utc[1], utc[2])
        \* the Date of the time ms of the day, local or offset seconds ahead
        \* of UTC
        Value(day, ms, tz) ==
            IF tz.local THEN DateOfLocal(zone, day + ms \div MsPerDay, ms % MsPerDay)
            ELSE Clip(PlusSeconds(day + ms \div MsPerDay, ms % MsPerDay, 0 - tz.offset))
        \* of what the three composers wrote
        Written(ymd, time, tz) ==
            IF ymd = <<>> \/ time = <<>> \/ tz.failed THEN InvalidDate
            ELSE IF ymd[1] > 1000000 \/ ymd[1] < 0 - 1000000 THEN InvalidDate
            ELSE Value(DaysFromCivil(ymd[1], ymd[2], ymd[3]),
                       ((time[1] * 60 + time[2]) * 60 + time[3]) * 1000 + time[4], tz)
        Composed(st) ==
            IF st.failed THEN InvalidDate
            ELSE Written(DayWrite(st), TimeWrite(st), ZoneWrite(st))
        \* the legacy parser goes on where the ES5 one stopped
        Parsed(ts, es5) ==
            IF es5.invalid THEN InvalidDate
            ELSE Composed(Legacy(ts, At(ts, es5.at), es5.scanned,
                                 [es5.st EXCEPT !.read = es5.st.comp # <<>>]))
        Tokenized(ts) == Parsed(ts, ParseES5DateTime(ts))
    IN Tokenized(Tokens(s, 1))

\* date.getTime(): the time value as a number [nan, day, ms]
GetTime(date) == [nan |-> ~date.valid, day |-> date.day, ms |-> date.ms]

(***************************************************************************)
(* History analyzer: extractPRNumber, getPRUrl and analyzeBlameResults.     *)
(***************************************************************************)
SubstringAt(s, i, p) == i >= 1 /\ i + Len(p) - 1 <= Len(s) /\ SubSeq(s, i, i + Len(p) - 1) = p

\* the digits captured by /prefix(\d+)suffix/ matched at position i, with \s+
\* before the digits when spaced; "" when the pattern does not match there
PRMatchAt(message, i, prefix, spaced, suffix) ==
    LET p == i + Len(prefix)
        ws == IF spaced THEN RunLen(message, p, TrimSpace) ELSE 0
        n == RunLen(message, p + ws, Digit)
    IN IF /\ SubstringAt(message, i, prefix)
          /\ (spaced => ws >= 1)
          /\ n >= 1
          /\ SubstringAt(message, p + ws + n, suffix)
       THEN SubSeq(message, p + ws, p + ws + n - 1)
       ELSE ""

\* message.match(pattern)[1] of the leftmost match; "" when there is none
PRMatch(message, prefix, spaced, suffix) ==
    LET Leftmost(hits) ==
            IF hits = {} THEN ""
            ELSE PRMatchAt(message, CHOOSE i \in hits : \A j \in hits : i <= j,
                           prefix, spaced, suffix)
    IN Leftmost({i \in 1..Len(message) : PRMatchAt(message, i, prefix, spaced, suffix) # ""})

\* mutant: the parenthesised azure pattern is tried before the github ones
extractPRNumber_AzureFirst(message) ==
    LET Found(prNumber, prSource) == [prNumber |-> prNumber, prSource |-> prSource]
        Pr(match) == IF match # "" THEN Found(match, "azure") ELSE <<>>
        Hash(match) ==
            IF match # "" THEN Found(match, "github") ELSE Pr(PRMatch(message, "PR", TRUE, ""))
        ParenHash(match) ==
            IF match # "" THEN Found(match, "github") ELSE Hash(PRMatch(message, "#", FALSE, ""))
        Merge(match) ==
            IF match # "" THEN Found(match, "github")
            ELSE ParenHash(PRMatch(message, "(#", FALSE, ")"))
        ParenPR(match) ==
            IF match # "" THEN Found(match, "azure")
            ELSE Merge(PRMatch(message, "Merge pull request #", FALSE, ""))
    IN ParenPR(PRMatch(message, "(PR", TRUE, ")"))

\* the five patterns in the order they are tried, each tried when the one
\* before it did not match; {} is the empty record
extractPRNumber(message) ==
    LET Found(prNumber, prSource) == [prNumber |-> prNumber, prSource |-> prSource]
        Pr(match) == IF match # "" THEN Found(match, "azure") ELSE <<>>
        Hash(match) ==
            IF match # "" THEN Found(match, "github") ELSE Pr(PRMatch(message, "PR", TRUE, ""))
        ParenPR(match) ==
            IF match # "" THEN Found(match, "azure") ELSE Hash(PRMatch(message, "#", FALSE, ""))
        ParenHash(match) ==
            IF match # "" THEN Found(match, "github")
            ELSE ParenPR(PRMatch(message, "(PR", TRUE, ")"))
        Merge(match) ==
            IF match # "" THEN Found(match, "github")
            ELSE ParenHash(PRMatch(message, "(#", FALSE, ")"))
    IN Merge(PRMatch(message, "Merge pull request #", FALSE, ""))

\* mutant: every pull request is taken to be on github
getPRUrl_GithubOnly(prNumber, source) ==
    "https://github.com/WiseTechGlobal/CargoWise/pull/" \o prNumber

getPRUrl(prNumber, source) ==
    IF source = "azure"
    THEN "https://devops.wisetechglobal.com/wtg/CargoWise/_git/Dev/pullrequest/" \o prNumber
    ELSE "https://github.com/WiseTechGlobal/CargoWise/pull/" \o prNumber

\* the value of a digit of parseInt in a radix up to 16
DigitValue(c) == IndexOf("0123456789abcdef", AsciiLower(c)) - 1

\* the number the digits denote in the radix, from <<days, seconds>> on: days
\* of 86400 and the seconds left, the days no further than MaxDay + 1, from
\* where on a number is beyond every time value
RECURSIVE Magnitude(_, _, _)
Magnitude(digits, radix, acc) ==
    IF digits = "" THEN acc
    ELSE LET seconds == acc[2] * radix + DigitValue(Ch(digits, 1))
         IN Magnitude(SubSeq(digits, 2, Len(digits)), radix,
                      <<Min(acc[1] * radix + seconds \div 86400, MaxDay + 1), seconds % 86400>>)

\* Number.parseInt(s) without a radix: white space, a sign, then the digits
\* of base sixteen behind 0x or 0X, else those of base ten; NaN when there
\* are none.  The number is negative or not and has the magnitude
\* days * 86400 + seconds.
ParseInt(s) ==
    LET NumberOf(negative, magnitude) ==
            [nan |-> FALSE, negative |-> negative,
             days |-> magnitude[1], seconds |-> magnitude[2]]
        \* the n digits of t from start on
        Digits(t, start, n, radix) ==
            IF n = 0 THEN [nan |-> TRUE, negative |-> FALSE, days |-> 0, seconds |-> 0]
            ELSE NumberOf(Ch(t, 1) = "-",
                          Magnitude(SubSeq(t, start, start + n - 1), radix, <<0, 0>>))
        Unsigned(t, from) ==
            IF Ch(t, from) = "0" /\ Ch(t, from + 1) \in {"x", "X"}
            THEN Digits(t, from + 2, RunLen(t, from + 2, HexDigit \cup CharSet("ABCDEF")), 16)
            ELSE Digits(t, from, RunLen(t, from, Digit), 10)
        Signed(t) == Unsigned(t, IF Ch(t, 1) \in {"-", "+"} THEN 2 ELSE 1)
    IN Signed(TrimStart(s))

\* new Date(timestamp * 1000)
DateOfSeconds(timestamp) ==
    IF timestamp.nan THEN InvalidDate
    ELSE IF timestamp.negative /\ timestamp.seconds > 0
    THEN TimeClip(0 - timestamp.days - 1, (86400 - timestamp.seconds) * 1000)
    ELSE IF timestamp.negative THEN TimeClip(0 - timestamp.days, 0)
    ELSE TimeClip(timestamp.days, timestamp.seconds * 1000)

\* line.match(/^([a-f0-9]+)\s+/)[1]; "" when the line does not match
CommitMatch(line) ==
    LET n == RunLen(line, 1, HexDigit)
    IN IF n >= 1 /\ Ch(line, n + 1) \in WhiteSpace THEN SubSeq(line, 1, n) ELSE ""

\* position of the record of hash in the commit map, 0 when it has none
MapIndex(commitMap, hash) ==
    LET hits == {i \in 1..Len(commitMap) : commitMap[i].commitHash = hash}
    IN IF hits = {} THEN 0 ELSE CHOOSE i \in hits : TRUE

NewCommit(hash) ==
    [commitHash |-> hash, author |-> "Unknown", commitDate |-> "", commitMessage |-> "",
     inDateRange |-> FALSE, withinOneYear |-> FALSE]

\* the header part of the loop body: a header of a hash not in the map yet
\* creates its record and makes it current; nothing else assigns currentCommit
BlameHeader(st, line) ==
    LET hash == CommitMatch(line)
    IN IF hash # "" /\ ~Includes(line, "\t") /\ MapIndex(st.commitMap, hash) = 0
       THEN [st EXCEPT !.commitMap = Append(@, NewCommit(hash)),
                       !.currentCommit = Len(st.commitMap) + 1]
       ELSE st

\* the summary branch: message, pull request fields, the two date flags
WithSummary(commit, line, startDateObj, oneYearAgo, zone) ==
    LET WithPR(pr, flagged) ==
            IF "prNumber" \in DOMAIN pr
            THEN [prNumber |-> pr.prNumber, prSource |-> pr.prSource,
                  prUrl |-> getPRUrl(pr.prNumber, pr.prSource)] @@ flagged
            ELSE flagged
        Flagged(message, commitDateObj) ==
            [commit EXCEPT !.commitMessage = message,
                           !.inDateRange = DateGE(commitDateObj, startDateObj),
                           !.withinOneYear = DateGE(commitDateObj, oneYearAgo)]
        WithMessage(message) ==
            WithPR(extractPRNumber(message),
                   Flagged(message, SetHoursZero(NewDate(commit.commitDate, zone), zone)))
    IN WithMessage(ReplaceFirst(line, "summary ", ""))

\* the metadata part of the loop body, applied to the current record;
\* toISOString throws on an invalid Date
BlameMetadata(st, line, startDateObj, oneYearAgo, zone) ==
    LET cur == st.currentCommit
        WithDate(date) ==
            IF ~date.valid THEN [st EXCEPT !.threw = TRUE]
            ELSE [st EXCEPT !.commitMap[cur].commitDate = ToISODate(date)]
    IN IF StartsWith(line, "author ") /\ cur # 0
       THEN [st EXCEPT !.commitMap[cur].author = ReplaceFirst(line, "author ", "")]
       ELSE IF StartsWith(line, "author-time ") /\ cur # 0
       THEN WithDate(DateOfSeconds(ParseInt(ReplaceFirst(line, "author-time ", ""))))
       ELSE IF StartsWith(line, "summary ") /\ cur # 0
       THEN [st EXCEPT !.commitMap[cur] =
                           WithSummary(st.commitMap[cur], line, startDateObj, oneYearAgo, zone)]
       ELSE st

\* the loop over the lines from line i on
RECURSIVE BlameLoop(_, _, _, _, _, _)
BlameLoop(lines, i, st, startDateObj, oneYearAgo, zone) ==
    IF i > Len(lines) \/ st.threw THEN st
    ELSE IF Trim(lines[i]) = "" THEN BlameLoop(lines, i + 1, st, startDateObj, oneYearAgo, zone)
    ELSE BlameLoop(lines, i + 1,
                   BlameMetadata(BlameHeader(st, lines[i]), lines[i], startDateObj, oneYearAgo, zone),
                   startDateObj, oneYearAgo, zone)

\* the commit map when the loop ends; now is the Date of the call, new Date(),
\* and zone the time zone of the process
BlameCommitMap(stdout, startDate, now, zone) ==
    BlameLoop(Split(stdout, "\n"), 1,
              [commitMap |-> <<>>, currentCommit |-> 0, threw |-> FALSE],
              SetHoursZero(NewDate(startDate, zone), zone), MinusOneYear(now, zone), zone)

\* commits.filter((c) => c.withinOneYear)
RECURSIVE FilterWithinOneYear(_)
FilterWithinOneYear(commits) ==
    IF commits = <<>> THEN <<>>
    ELSE (IF Head(commits).withinOneYear THEN <<Head(commits)>> ELSE <<>>)
             \o FilterWithinOneYear(Tail(commits))

(***************************************************************************)
(* Array.prototype.sort of V8 on an array of under 64 elements, which it    *)
(* takes as one run: the run the array begins with, then binary insertion   *)
(* of the elements behind it.  order[i][j] is what the comparator returns   *)
(* for the elements i and j of the array, 0 for NaN; the sort reads whether *)
(* it is below 0.  With a comparator that is no order (a NaN among the      *)
(* keys) the outcome is that of these steps.                                *)
(***************************************************************************)
\* CountAndMakeRun: the length of the run from the element start - 1 on, start
\* the first element to compare with the one before it
RECURSIVE RunLength(_, _, _)
RunLength(order, n, start) ==
    IF start > n THEN start - 1
    ELSE IF (order[2][1] < 0) = (order[start][start - 1] < 0) THEN RunLength(order, n, start + 1)
    ELSE start - 1

\* the binary search of BinaryInsertionSort, left and right 0-based: where
\* the pivot goes among work[left..right - 1]
RECURSIVE BinarySearch(_, _, _, _, _)
BinarySearch(order, work, pivot, left, right) ==
    IF left >= right THEN left
    ELSE LET mid == left + (right - left) \div 2
         IN IF order[pivot][work[mid + 1]] < 0
            THEN BinarySearch(order, work, pivot, left, mid)
            ELSE BinarySearch(order, work, pivot, mid + 1, right)

\* BinaryInsertionSort from the 0-based position start on; work holds the
\* indexes of the elements
RECURSIVE BinaryInsertionSort(_, _, _)
BinaryInsertionSort(order, work, start) ==
    IF start >= Len(work) THEN work
    ELSE LET pivot == work[start + 1]
             left == BinarySearch(order, work, pivot, 0, start)
         IN BinaryInsertionSort(order,
                                SubSeq(work, 1, left) \o <<pivot>> \o SubSeq(work, left + 1, start)
                                    \o SubSeq(work, start + 2, Len(work)),
                                start + 1)

\* ArrayTimSort: the indexes of the n elements in the order of the sorted
\* array; a run that descends is reversed
ArrayTimSort(order, n) ==
    IF n < 2 THEN [i \in 1..n |-> i]
    ELSE IF n >= 64 THEN CHOOSE longer \in {} : TRUE
    ELSE LET run == RunLength(order, n, 3)
             work == [i \in 1..n |-> IF i > run THEN i
                                     ELSE IF order[2][1] < 0 THEN run + 1 - i
                                     ELSE i]
         IN BinaryInsertionSort(order, work, run)

\* mutant: oldest first
CompareByDate_Ascending(a, b, zone) ==
    LET Sign(da, db) ==
            IF ~da.valid \/ ~db.valid THEN 0
            ELSE IF da = db THEN 0
            ELSE IF NotBefore(<<da.day, da.ms>>, <<db.day, db.ms>>) THEN 1
            ELSE 0 - 1
    IN Sign(NewDate(a.commitDate, zone), NewDate(b.commitDate, zone))

\* the sign of new Date(b.commitDate).getTime() - new Date(a.commitDate).getTime(),
\* 0 for NaN
CompareByDate(a, b, zone) ==
    LET Sign(da, db) ==
            IF ~da.valid \/ ~db.valid THEN 0
            ELSE IF da = db THEN 0
            ELSE IF NotBefore(<<db.day, db.ms>>, <<da.day, da.ms>>) THEN 1
            ELSE 0 - 1
    IN Sign(NewDate(a.commitDate, zone), NewDate(b.commitDate, zone))

\* .sort((a, b) => new Date(b.commitDate).getTime() - new Date(a.commitDate).getTime())
SortByDate(commits, zone) ==
    LET order == [i \in 1..Len(commits) |->
                      [j \in 1..Len(commits) |-> CompareByDate(commits[i], commits[j], zone)]]
        sorted == ArrayTimSort(order, Len(commits))
    IN [k \in 1..Len(commits) |-> commits[sorted[k]]]

\* blame is the outcome of the blame command: [ok |-> FALSE] when it fails
analyzeBlameResults(blame, startDate, now, zone) ==
    IF ~blame.ok THEN <<>>
    ELSE LET Filtered(st) ==
                 IF st.threw THEN <<>>
                 ELSE SortByDate(FilterWithinOneYear(st.commitMap), zone)
         IN Filtered(BlameCommitMap(blame.stdout, startDate, now, zone))

(***************************************************************************)
(* The log query getFileCommitsInDateRange.                                 *)
(***************************************************************************)
\* stdout.split("---END---").filter((r) => r.trim())
RECURSIVE NonBlank(_)
NonBlank(strs) ==
    IF strs = <<>> THEN <<>>
    ELSE (IF Trim(Head(strs)) = "" THEN <<>> ELSE <<Head(strs)>>) \o NonBlank(Tail(strs))

\* the loop body: the commit of a record of five lines or more, <<>> for a
\* shorter record; a message without a pull request leaves the two fields out
LogCommit(record, zone) ==
    LET lines == Split(Trim(record), "\n")
    IN IF Len(lines) < 5 THEN <<>>
       ELSE <<[hash |-> lines[1], author |-> lines[2], authorEmail |-> lines[3],
               date |-> lines[4], timestamp |-> GetTime(NewDate(lines[4], zone)),
               message |-> lines[5]]
              @@ extractPRNumber(lines[5])>>

RECURSIVE LogCommits(_, _)
LogCommits(records, zone) ==
    IF records = <<>> THEN <<>>
    ELSE LogCommit(Head(records), zone) \o LogCommits(Tail(records), zone)

\* the sign of b.timestamp - a.timestamp, 0 for NaN
CompareByTimestamp(a, b) ==
    IF a.timestamp.nan \/ b.timestamp.nan THEN 0
    ELSE IF a.timestamp = b.timestamp THEN 0
    ELSE IF NotBefore(<<b.timestamp.day, b.timestamp.ms>>, <<a.timestamp.day, a.timestamp.ms>>)
    THEN 1
    ELSE 0 - 1

\* commits.sort((a, b) => b.timestamp - a.timestamp)
SortByTimestamp(commits) ==
    LET order == [i \in 1..Len(commits) |->
                      [j \in 1..Len(commits) |-> CompareByTimestamp(commits[i], commits[j])]]
        sorted == ArrayTimSort(order, Len(commits))
    IN [k \in 1..Len(commits) |-> commits[sorted[k]]]

\* mutant: a failure of git log gives null
getFileCommitsInDateRange_Null(log, zone) ==
    IF ~log.ok THEN Null
    ELSE SortByTimestamp(LogCommits(NonBlank(Split(log.stdout, "---END---")), zone))

\* log is the outcome of the git log command: [ok |-> FALSE, ...] when it
\* fails; zone is the time zone of the process
getFileCommitsInDateRange(log, zone) ==
    IF ~log.ok THEN <<>>
    ELSE SortByTimestamp(LogCommits(NonBlank(Split(log.stdout, "---END---")), zone))

\* 2^k modulo m
RECURSIVE PowerOfTwoMod(_, _)
PowerOfTwoMod(k, m) == IF k = 0 THEN 1 % m ELSE (2 * PowerOfTwoMod(k - 1, m)) % m

\* floor(log2(a / b)) for positive a and b
RECURSIVE FloorLog2(_, _)
FloorLog2(a, b) ==
    IF a < b THEN FloorLog2(2 * a, b) - 1
    ELSE IF a >= 2 * b THEN FloorLog2(a, 2 * b) + 1
    ELSE 0

\* Math.round((stepNumber / totalSteps) * 100) in the doubles of JavaScript,
\* for a step number and a total from 1 to a million.  The quotient is
\* rounded to 53 bits before it is multiplied, which matters when
\* 100 * stepNumber / totalSteps is half an odd number n / 2: the quotient
\* n / 200 is exact when 25 divides n, and else it is r / 200 of its last bit
\* away from the double below it; it is rounded down when r < 100, and the
\* product is then below n / 2 when it is more than half of its own last
\* bit below, which is r / 128 of it when the product has six more binary
\* digits before the point than the quotient and r / 256 when seven.
Percentage(stepNumber, totalSteps) ==
    LET n == (200 * stepNumber) \div totalSteps
        tie == n * totalSteps = 200 * stepNumber /\ n % 2 = 1
        F == FloorLog2(n, 200)
        E == FloorLog2(n, 2)
        r == ((n % 200) * PowerOfTwoMod(52 - F, 200)) % 200
    IN IF tie /\ n % 25 # 0 /\ E - F = 6 /\ r > 64 /\ r < 100
       THEN (n - 1) \div 2
       ELSE (200 * stepNumber + totalSteps) \div (2 * totalSteps)

(***************************************************************************)
(* The class ProgressTracker.  An object is the record of its fields; a     *)
(* method is the object after the call.  An observer is a function; sent    *)
(* is a history of the calls made to the observers, each with the step as   *)
(* it was when the call was made: the code has no such field.  The time     *)
(* stamp of a step is left out.                                             *)
(***************************************************************************)
\* new ProgressTracker(totalSteps)
NewTracker(totalSteps) ==
    [steps |-> <<>>, currentStepNumber |-> 0, totalSteps |-> totalSteps, observers |-> <<>>,
     sent |-> <<>>]

\* this.observers.forEach((observer) => observer(step))
notify(t, step) ==
    [t EXCEPT !.sent = @ \o [k \in 1..Len(t.observers) |->
                                [observer |-> t.observers[k], step |-> step]]]

\* this.observers.push(observer), whether the function is in the list or not,
\* then observer(step) for each step of this.steps
subscribe(t, observer) ==
    [t EXCEPT !.observers = Append(@, observer),
              !.sent = @ \o [k \in 1..Len(t.steps) |-> [observer |-> observer, step |-> t.steps[k]]]]

\* the object after startStep; the call returns its currentStepNumber
startStep(t, stepName, details) ==
    LET n == t.currentStepNumber + 1
        step == [stepNumber |-> n, totalSteps |-> t.totalSteps, stepName |-> stepName,
                 details |-> details, status |-> "running",
                 percentage |-> Percentage(n, t.totalSteps)]
    IN notify([t EXCEPT !.currentStepNumber = n, !.steps = Append(@, step)], step)

\* this.steps[stepNumber - 1] is undefined outside the list
completeStep(t, stepNumber, details) ==
    IF stepNumber \notin 1..Len(t.steps) THEN t
    ELSE LET step == [t.steps[stepNumber] EXCEPT
                          !.status = "success", !.details = details,
                          !.percentage = Percentage(t.steps[stepNumber].stepNumber, t.totalSteps)]
         IN notify([t EXCEPT !.steps[stepNumber] = step], step)

errorStep(t, stepNumber, error) ==
    IF stepNumber \notin 1..Len(t.steps) THEN t
    ELSE LET step == [t.steps[stepNumber] EXCEPT !.status = "error", !.details = error]
         IN notify([t EXCEPT !.steps[stepNumber] = step], step)

(***************************************************************************)
(* Orchestrator: logProgress and POST.  A call of POST runs until it awaits  *)
(* and goes on when what it awaits is settled; calls in flight interleave at *)
(* these points.  The local variables of a call and the module-wide list     *)
(* are threaded through the code as a context [rq, steps, now], now the Date  *)
(* that new Date() gives.                                                    *)
(***************************************************************************)
\* the time stamp of a step is left out.  logged is a history of the steps the
\* call has logged itself; the code has no such variable
logProgress(cx, stepNumber, totalSteps, title, description, status) ==
    LET step == [stepNumber |-> stepNumber, totalSteps |-> totalSteps, title |-> title,
                 description |-> description, status |-> status,
                 percentage |-> Percentage(stepNumber, totalSteps)]
    IN [cx EXCEPT !.rq.logged = Append(@, step), !.steps = Append(@, step)]

\* return NextResponse.json({ error }, { status })
ErrorResponse(cx, status, message) ==
    [cx EXCEPT !.rq.pc = "done", !.rq.response = [status |-> status, body |-> [error |-> message]]]

\* the response after the loop; the list of steps is serialised as it is now,
\* and endDate is the UTC date of the clock, new Date().toISOString().split("T")[0]
Respond(cx) ==
    LET results == cx.rq.results
        filesFound == {k \in 1..Len(results) : results[k].fileFound}
        methodsFound == {k \in 1..Len(results) : results[k].methodFound}
        withChanges == {k \in 1..Len(results) :
                           \E g \in 1..Len(results[k].gitBlameResults) :
                               results[k].gitBlameResults[g].inDateRange}
    IN [cx EXCEPT !.rq.pc = "done",
                  !.rq.response =
                      [status |-> 200,
                       body |-> [results |-> results,
                                 summary |-> [totalEntries |-> Len(results),
                                              filesFound |-> Cardinality(filesFound),
                                              methodsFound |-> Cardinality(methodsFound),
                                              withChanges |-> Cardinality(withChanges),
                                              dateRange |->
                                                  [startDate |-> cx.rq.startDate,
                                                   endDate |-> ToISODate(cx.now)]],
                                 progress |-> cx.steps]]]

\* the loop body for entry i up to the call of findSourceFile
StartEntry(cx) ==
    LET entry == cx.rq.entries[cx.rq.i + 1]
        baseStep == 1 + cx.rq.i * 3
        logged == logProgress([cx EXCEPT !.rq.stepCounter = baseStep + 1],
                              baseStep + 1, cx.rq.totalSteps, "Find Source File",
                              "Locating " \o SourceFileName(entry.namespace) \o " for " \o entry.namespace,
                              "running")
    IN [logged EXCEPT !.rq.pc = "findSourceFile"]

\* mutant: the loop ends at the first entry whose result carries an error
NextEntry_StopOnError(cx) ==
    LET next == [cx EXCEPT !.rq.i = @ + 1]
    IN IF next.rq.i < Len(next.rq.entries)
          /\ "error" \notin DOMAIN next.rq.results[Len(next.rq.results)]
       THEN StartEntry(next)
       ELSE Respond(next)

\* i++ and the loop test: the next entry, or the response
NextEntry(cx) ==
    LET next == [cx EXCEPT !.rq.i = @ + 1]
    IN IF next.rq.i < Len(next.rq.entries) THEN StartEntry(next) ELSE Respond(next)

PushResult(cx, result) == [cx EXCEPT !.rq.results = Append(@, result)]

\* !value for a field of the request body: absent or the empty string
Falsy(field) == field = Null \/ field = Some("")

\* mutant: the shape of startDate is not tested
BeginAnalysis_AnyDate(cx) ==
    LET json == cx.rq.json
    IN IF ~json.ok THEN ErrorResponse(cx, 500, json.message)
       ELSE IF Falsy(json.stackTrace) \/ Falsy(json.startDate)
       THEN ErrorResponse(cx, 400, "Missing stackTrace or startDate")
       ELSE LET cleared == [cx EXCEPT !.steps = <<>>, !.rq.stepCounter = 1,
                                      !.rq.startDate = json.startDate.value]
                running == logProgress(cleared, 1, 1, "Parse Stack Trace",
                                       "Extracting stack trace entries", "running")
                entries == deduplicateEntries(parseStackTrace(json.stackTrace.value))
                complete == logProgress(running, 1, Len(entries) + 1, "Parse Stack Trace",
                                        "Found " \o Pad(Len(entries), 1) \o " entries", "complete")
            IN IF Len(entries) = 0
               THEN ErrorResponse(running, 400,
                        "No valid custom code entries found in stack trace (filtered out System.* entries)")
               ELSE StartEntry([complete EXCEPT !.rq.entries = entries,
                                                !.rq.totalSteps = 1 + Len(entries) * 3,
                                                !.rq.i = 0])

\* POST from the moment request.json() is settled to the first call of
\* findSourceFile, or to an early response
BeginAnalysis(cx) ==
    LET json == cx.rq.json
    IN IF ~json.ok THEN ErrorResponse(cx, 500, json.message)
       ELSE IF Falsy(json.stackTrace) \/ Falsy(json.startDate)
       THEN ErrorResponse(cx, 400, "Missing stackTrace or startDate")
       ELSE IF ~IsDateShaped(json.startDate.value)
       THEN ErrorResponse(cx, 400, "Invalid date format. Use YYYY-MM-DD")
       ELSE LET cleared == [cx EXCEPT !.steps = <<>>, !.rq.stepCounter = 1,
                                      !.rq.startDate = json.startDate.value]
                running == logProgress(cleared, 1, 1, "Parse Stack Trace",
                                       "Extracting stack trace entries", "running")
                entries == deduplicateEntries(parseStackTrace(json.stackTrace.value))
                complete == logProgress(running, 1, Len(entries) + 1, "Parse Stack Trace",
                                        "Found " \o Pad(Len(entries), 1) \o " entries", "complete")
            IN IF Len(entries) = 0
               THEN ErrorResponse(running, 400,
                        "No valid custom code entries found in stack trace (filtered out System.* entries)")
               ELSE StartEntry([complete EXCEPT !.rq.entries = entries,
                                                !.rq.totalSteps = 1 + Len(entries) * 3,
                                                !.rq.i = 0])

\* mutant: the method is looked for although no file was found
AfterFindSourceFile_NoShortCircuit(cx, filePath) ==
    LET entry == cx.rq.entries[cx.rq.i + 1]
        baseStep == 1 + cx.rq.i * 3
        total == cx.rq.totalSteps
    IN IF filePath = Null \/ filePath = Some("")
       THEN [logProgress([cx EXCEPT !.rq.stepCounter = baseStep + 2, !.rq.filePath = ""],
                         baseStep + 2, total, "Find Method Location",
                         "Searching for method " \o entry.methodName, "running")
                 EXCEPT !.rq.pc = "findMethodLineRange"]
       ELSE LET found == logProgress(cx, cx.rq.stepCounter, total, "Find Source File",
                                     "Found: " \o filePath.value, "complete")
                running == logProgress([found EXCEPT !.rq.stepCounter = baseStep + 2,
                                                     !.rq.filePath = filePath.value],
                                       baseStep + 2, total, "Find Method Location",
                                       "Searching for method " \o entry.methodName, "running")
            IN [running EXCEPT !.rq.pc = "findMethodLineRange"]

\* entry i from the result of findSourceFile on
AfterFindSourceFile(cx, filePath) ==
    LET entry == cx.rq.entries[cx.rq.i + 1]
        baseStep == 1 + cx.rq.i * 3
        total == cx.rq.totalSteps
    IN IF filePath = Null \/ filePath = Some("")
       THEN NextEntry(PushResult(
                logProgress(cx, cx.rq.stepCounter, total, "Find Source File",
                            "Source file not found for " \o entry.namespace \o ". Manual review needed.",
                            "error"),
                [namespace |-> entry.namespace, methodName |-> entry.methodName, filePath |-> "",
                 fileFound |-> FALSE, lineRange |-> Null, methodFound |-> FALSE,
                 gitBlameResults |-> <<>>,
                 error |-> "Source file not found. Please manually verify in codebase."]))
       ELSE LET found == logProgress(cx, cx.rq.stepCounter, total, "Find Source File",
                                     "Found: " \o filePath.value, "complete")
                running == logProgress([found EXCEPT !.rq.stepCounter = baseStep + 2,
                                                     !.rq.filePath = filePath.value],
                                       baseStep + 2, total, "Find Method Location",
                                       "Searching for method " \o entry.methodName, "running")
            IN [running EXCEPT !.rq.pc = "findMethodLineRange"]

\* "start-end" of a line range
RangeText(lineRange) == Pad(lineRange.start, 1) \o "-" \o Pad(lineRange.end, 1)

\* mutant: a method that is not found is reported as a file that is not found
AfterFindMethodLineRange_NoFile(cx, lineRange) ==
    LET entry == cx.rq.entries[cx.rq.i + 1]
        baseStep == 1 + cx.rq.i * 3
        total == cx.rq.totalSteps
    IN IF lineRange = Null
       THEN NextEntry(PushResult(
                logProgress(cx, cx.rq.stepCounter, total, "Find Method Location",
                            "Method " \o entry.methodName
                                \o " not found. May be interface/base class. Manual review needed.",
                            "error"),
                [namespace |-> entry.namespace, methodName |-> entry.methodName,
                 filePath |-> "", fileFound |-> FALSE, lineRange |-> Null,
                 methodFound |-> FALSE, gitBlameResults |-> <<>>,
                 error |-> "Method not found in file. May be defined in interface or base class."]))
       ELSE LET found == logProgress(cx, cx.rq.stepCounter, total, "Find Method Location",
                                     "Found at lines " \o RangeText(lineRange), "complete")
                running == logProgress([found EXCEPT !.rq.stepCounter = baseStep + 3,
                                                     !.rq.lineRange = lineRange],
                                       baseStep + 3, total, "Query Git History",
                                       "Analyzing git blame for lines " \o RangeText(lineRange),
                                       "running")
            IN [running EXCEPT !.rq.pc = "analyzeBlameResults"]

\* entry i from the result of findMethodLineRange on
AfterFindMethodLineRange(cx, lineRange) ==
    LET entry == cx.rq.entries[cx.rq.i + 1]
        baseStep == 1 + cx.rq.i * 3
        total == cx.rq.totalSteps
    IN IF lineRange = Null
       THEN NextEntry(PushResult(
                logProgress(cx, cx.rq.stepCounter, total, "Find Method Location",
                            "Method " \o entry.methodName
                                \o " not found. May be interface/base class. Manual review needed.",
                            "error"),
                [namespace |-> entry.namespace, methodName |-> entry.methodName,
                 filePath |-> cx.rq.filePath, fileFound |-> TRUE, lineRange |-> Null,
                 methodFound |-> FALSE, gitBlameResults |-> <<>>,
                 error |-> "Method not found in file. May be defined in interface or base class."]))
       ELSE LET found == logProgress(cx, cx.rq.stepCounter, total, "Find Method Location",
                                     "Found at lines " \o RangeText(lineRange), "complete")
                running == logProgress([found EXCEPT !.rq.stepCounter = baseStep + 3,
                                                     !.rq.lineRange = lineRange],
                                       baseStep + 3, total, "Query Git History",
                                       "Analyzing git blame for lines " \o RangeText(lineRange),
                                       "running")
            IN [running EXCEPT !.rq.pc = "analyzeBlameResults"]

\* entry i from the result of analyzeBlameResults on
AfterAnalyzeBlameResults(cx, gitBlameResults) ==
    LET entry == cx.rq.entries[cx.rq.i + 1]
        changesInRange == Cardinality({k \in 1..Len(gitBlameResults) : gitBlameResults[k].inDateRange})
    IN NextEntry(PushResult(
           logProgress(cx, cx.rq.stepCounter, cx.rq.totalSteps, "Query Git History",
                       "Found " \o Pad(Len(gitBlameResults), 1) \o " commits ("
                           \o Pad(changesInRange, 1) \o " in date range)",
                       "complete"),
           [namespace |-> entry.namespace, methodName |-> entry.methodName,
            filePath |-> cx.rq.filePath, fileFound |-> TRUE, lineRange |-> cx.rq.lineRange,
            methodFound |-> TRUE, gitBlameResults |-> gitBlameResults]))

\* The catch block of the loop body is never entered: findSourceFile,
\* findMethodLineRange and analyzeBlameResults each catch whatever is raised
\* in them and return their absent value, and nothing else in the try block
\* raises.

(***************************************************************************)
(* The harness of the pure functions: a specification draws the arguments  *)
(* in its initial state and its action applies the function.               *)
(***************************************************************************)
RECURSIVE Concat(_)
Concat(strs) == IF strs = <<>> THEN "" ELSE Head(strs) \o Concat(Tail(strs))

SeqsUpTo(set, n) == UNION {[1..k -> set] : k \in 0..n}

Call(f) == fn = f /\ ~returned

Return(value) ==
    /\ ret' = value
    /\ returned' = TRUE
    /\ UNCHANGED <<fn, args, progressSteps, requests, tracker>>

\* no request is made and no tracker is built while a function is exercised on
\* its own
NoRequests == progressSteps = <<>> /\ requests = <<>> /\ tracker = <<>>

\* ---- parseStackTrace ----
\* Pieces of trace text: frames of user code and of the runtime library, with
\* nested namespaces, over several lines.
TraceFragments == {"at System", "at App", ".IO", ".Run(x)", "\n"}

InitParse ==
    /\ fn = "parseStackTrace"
    /\ args \in {[stackTrace |-> Concat(fs)] : fs \in SeqsUpTo(TraceFragments, MaxFrags)}
    /\ ret = <<>>
    /\ returned = FALSE
    /\ NoRequests

CallParseStackTrace ==
    /\ Call("parseStackTrace")
    /\ Return(parseStackTrace(args.stackTrace))

\* ---- parseStackTrace on one frame line ----
\* segments of qualified names, method identifiers and parameter lists
NameSegments == {"System", "SystemTools", "App", "Orders", "OrderService", "IO"}

MethodNames == {"Submit", "Run", "_x1"}

ParameterLists == {"", "Order o", "String s, Int32 n"}

\* the segments joined by dots
RECURSIVE Qualified(_)
Qualified(segments) ==
    IF Len(segments) = 1 THEN segments[1]
    ELSE Head(segments) \o "." \o Qualified(Tail(segments))

\* a line "   at Q.M(args)" for a qualified name Q of one segment or more, or
\* "   at M(args)" when segments is empty
InitFrameLine ==
    /\ fn = "parseStackTrace"
    /\ args \in {[stackTrace |-> "   at " \o (IF segments = <<>> THEN "" ELSE Qualified(segments) \o ".")
                                         \o method \o "(" \o parameters \o ")",
                   segments |-> segments, method |-> method] :
                      segments \in SeqsUpTo(NameSegments, MaxSegments), method \in MethodNames,
                      parameters \in ParameterLists}
    /\ ret = <<>>
    /\ returned = FALSE
    /\ NoRequests

\* ---- parseStackTrace on a decorated method token ----
\* pieces of the method token of a frame: identifiers, angle brackets of a
\* compiler-generated name, an arity marker, a list of generic arguments
TokenParts == {"Run", "d__1", "<", ">", "$<", Backtick \o "1", "[T]"}

InitMethodToken ==
    /\ fn = "parseStackTrace"
    /\ args \in {[stackTrace |-> "   at App.Svc." \o Concat(parts) \o "(x)", parts |-> parts] :
                      parts \in SeqsUpTo(TokenParts, MaxTokenParts)}
    /\ ret = <<>>
    /\ returned = FALSE
    /\ NoRequests

\* ---- deduplicateEntries ----
\* Frames as the parser numbers them: the line index tells two occurrences of
\* one key apart.  The keys of <<"A", "B.C">> and <<"A.B", "C">> coincide.
DedupNames == {<<"A", "C">>, <<"A", "B.C">>, <<"A.B", "C">>, <<"A.B", "B.C">>}

NumberedEntries(names) ==
    [i \in 1..Len(names) |-> [namespace |-> names[i][1], methodName |-> names[i][2],
                              originalLine |-> "", lineIndex |-> i - 1]]

InitDedup ==
    /\ fn = "deduplicateEntries"
    /\ args \in {[entries |-> NumberedEntries(ns)] : ns \in SeqsUpTo(DedupNames, MaxFrames)}
    /\ ret = <<>>
    /\ returned = FALSE
    /\ NoRequests

CallDeduplicateEntries ==
    /\ Call("deduplicateEntries")
    /\ Return(deduplicateEntries(args.entries))

\* the caller passes the result of the first call to a second call; first
\* keeps the result of the first call
PassResultOn ==
    /\ fn = "deduplicateEntries" /\ returned
    /\ "first" \notin DOMAIN args
    /\ args' = [entries |-> ret, first |-> ret]
    /\ ret' = <<>>
    /\ returned' = FALSE
    /\ UNCHANGED <<fn, progressSteps, requests, tracker>>

\* ---- findSourceFile ----
PROJECT_ROOT == "C:\\git\\GitHub\\WiseTechGlobal\\CargoWise"

FileNamespaces == {"App.Orders.OrderService", "App.Orders.Core.OrderService"}

\* directories under the project root that may hold a file of the class
CandidateDirs ==
    {"App\\Orders\\", "Legacy\\", "App\\Legacy\\", "Lib\\Orders\\",
     "Lib\\Orders\\Core\\", "App\\Core\\X\\"}

\* sequences of distinct elements of set, of length at most n
DistinctSeqsUpTo(set, n) ==
    {q \in SeqsUpTo(set, n) : \A i \in 1..Len(q) : \A j \in 1..Len(q) : q[i] = q[j] => i = j}

\* the files the search finds, in search order, as absolute paths
CandidatePaths(dirs, fileName) ==
    [i \in 1..Len(dirs) |-> PROJECT_ROOT \o "\\" \o dirs[i] \o fileName]

\* the output of dir /s /b: one absolute path per line, each line ended \r\n
DirOutput(paths) == Concat([i \in 1..Len(paths) |-> paths[i] \o "\r\n"])

\* args.candidates records what the search found; the code sees only stdout
InitFile ==
    /\ fn = "findSourceFile"
    /\ args \in {[namespace |-> ns, projectRoot |-> PROJECT_ROOT, candidates |-> <<>>,
                   search |-> [ok |-> FALSE]] : ns \in FileNamespaces}
               \cup
               {[namespace |-> ns, projectRoot |-> PROJECT_ROOT,
                 candidates |-> CandidatePaths(dirs, SourceFileName(ns)),
                 search |-> [ok |-> TRUE,
                             stdout |-> DirOutput(CandidatePaths(dirs, SourceFileName(ns)))]] :
                    ns \in FileNamespaces, dirs \in DistinctSeqsUpTo(CandidateDirs, MaxCandidates)}
    /\ ret = <<>>
    /\ returned = FALSE
    /\ NoRequests

CallFindSourceFile ==
    /\ Call("findSourceFile")
    /\ Return(findSourceFile(args.namespace, args.projectRoot, args.search))

\* ---- findMethodLineRange ----
\* lines of a C# source file: declarations of Run with a body opened on the
\* line, without a body, and with a body on one line; nested blocks
SourceLines ==
    {"  void Run() {", "  void Run();", "  void Run() { }", "    if (x) {", "    }", "    } else {"}

\* lines.join("\n")
RECURSIVE JoinLines(_)
JoinLines(lines) ==
    IF lines = <<>> THEN ""
    ELSE IF Len(lines) = 1 THEN lines[1]
    ELSE lines[1] \o "\n" \o JoinLines(Tail(lines))

InitMethod ==
    /\ fn = "findMethodLineRange"
    /\ args \in {[file |-> [exists |-> FALSE], methodName |-> "Run"]}
               \cup
               {[file |-> [exists |-> TRUE, content |-> JoinLines(ls)], methodName |-> "Run"] :
                    ls \in SeqsUpTo(SourceLines, MaxFileLines)}
    /\ ret = <<>>
    /\ returned = FALSE
    /\ NoRequests

CallFindMethodLineRange ==
    /\ Call("findMethodLineRange")
    /\ Return(findMethodLineRange(args.file, args.methodName))

\* ---- analyzeBlameResults ----
BlameHashes == {"a1f", "b2e"}

AuthorOf(hash) == IF hash = "a1f" THEN "Al" ELSE "Bo"

SummaryOf(hash) == IF hash = "a1f" THEN "Fix crash (#42)" ELSE "Tidy up"

\* calendar dates with their day since the epoch: around one year before
\* Today, at the end of summer time in Europe, and just before Today
CommitDays ==
    {[date |-> "2025-03-09", day |-> 20156], [date |-> "2025-03-10", day |-> 20157],
     [date |-> "2025-03-11", day |-> 20158], [date |-> "2025-10-26", day |-> 20387],
     [date |-> "2026-03-09", day |-> 20521]}

\* the local date of the call, and the date one year before it; the clock of
\* the call is a time of day of Today in the time zone of the process
Today == [date |-> "2026-03-10", day |-> 20522, yearAgo |-> "2025-03-10"]

\* seconds into the day at the call: midnight and noon
TimesOfDay == {0, 43200}

\* time zones of the process, as the tz database has them from 2024 to 2026
UTC == [offset |-> 0, transitions |-> <<>>]

\* Asia/Tokyo: nine hours ahead of UTC throughout
Tokyo == [offset |-> 32400, transitions |-> <<>>]

\* America/Los_Angeles: eight hours behind UTC, seven from the second Sunday
\* of March, 10:00 UTC, to the first Sunday of November, 09:00 UTC
LosAngeles ==
    [offset |-> 0 - 28800,
     transitions |-> <<[day |-> 19792, ms |-> 36000000, offset |-> 0 - 25200],
                       [day |-> 20030, ms |-> 32400000, offset |-> 0 - 28800],
                       [day |-> 20156, ms |-> 36000000, offset |-> 0 - 25200],
                       [day |-> 20394, ms |-> 32400000, offset |-> 0 - 28800],
                       [day |-> 20520, ms |-> 36000000, offset |-> 0 - 25200],
                       [day |-> 20758, ms |-> 32400000, offset |-> 0 - 28800]>>]

\* Atlantic/Azores: one hour behind UTC, at UTC from the last Sunday of March
\* to the last Sunday of October, 01:00 UTC
Azores ==
    [offset |-> 0 - 3600,
     transitions |-> <<[day |-> 19813, ms |-> 3600000, offset |-> 0],
                       [day |-> 20023, ms |-> 3600000, offset |-> 0 - 3600],
                       [day |-> 20177, ms |-> 3600000, offset |-> 0],
                       [day |-> 20387, ms |-> 3600000, offset |-> 0 - 3600],
                       [day |-> 20541, ms |-> 3600000, offset |-> 0],
                       [day |-> 20751, ms |-> 3600000, offset |-> 0 - 3600]>>]

TimeZones == {UTC, Tokyo, LosAngeles, Azores}

\* the third is the day after summer time ends in Europe, the last one is
\* date-shaped and no date
StartDates == {"2025-03-10", "2026-03-09", "2025-10-27", "2024-13-45"}

\* the commits of the repository: the UTC day and time of day of each
Commits == [BlameHashes -> {[date |-> c.date, day |-> c.day, tod |-> t] : c \in CommitDays, t \in {0, 86399}}]

\* what git blame --incremental prints for one group of lines: the metadata
\* of a commit the first time it is named, the header and the file name after
BlameEntry(hash, commit, first) ==
    IF first
    THEN <<hash \o " 1 1 1",
           "author " \o AuthorOf(hash),
           "author-time " \o Pad(commit.day * 86400 + commit.tod, 1),
           "author-tz +0000",
           "summary " \o SummaryOf(hash),
           "filename F.cs">>
    ELSE <<hash \o " 2 2 1", "filename F.cs">>

RECURSIVE BlameOutputLines(_, _, _)
BlameOutputLines(hashes, commits, seen) ==
    IF hashes = <<>> THEN <<>>
    ELSE BlameEntry(Head(hashes), commits[Head(hashes)], Head(hashes) \notin seen)
             \o BlameOutputLines(Tail(hashes), commits, seen \cup {Head(hashes)})

\* each line is ended by a line feed
RECURSIVE EndLines(_)
EndLines(lines) == IF lines = <<>> THEN "" ELSE Head(lines) \o "\n" \o EndLines(Tail(lines))

\* the commits that occur in hashes are free, the others are not in the output
InitBlame ==
    /\ fn = "analyzeBlameResults"
    /\ \E hashes \in SeqsUpTo(BlameHashes, MaxBlameEntries), commits \in Commits,
          startDate \in StartDates, tod \in TimesOfDay, zone \in TimeZones, ok \in BOOLEAN :
          /\ \A h \in BlameHashes :
                 (\A i \in 1..Len(hashes) : hashes[i] # h) =>
                     commits[h] = [date |-> "2025-03-09", day |-> 20156, tod |-> 0]
          /\ ~ok => hashes = <<>> /\ tod = 0 /\ zone = UTC
          /\ args = [blame |-> IF ok THEN [ok |-> TRUE,
                                           stdout |-> EndLines(BlameOutputLines(hashes, commits, {}))]
                               ELSE [ok |-> FALSE],
                     startDate |-> startDate,
                     now |-> DateOfLocal(zone, Today.day, tod * 1000),
                     zone |-> zone,
                     hashes |-> hashes,
                     commits |-> commits]
    /\ ret = <<>>
    /\ returned = FALSE
    /\ NoRequests

CallAnalyzeBlameResults ==
    /\ Call("analyzeBlameResults")
    /\ Return(analyzeBlameResults(args.blame, args.startDate, args.now, args.zone))

\* blame output that repeats metadata after the header of a commit already
\* named, as git blame --line-porcelain does, in any order
BlameLineSet ==
    {"a1f 1 1 1", "b2e 2 2 1", "author Al", "author Bo", "author-time 1741564800",
     "summary Fix crash (#42)", "filename F.cs"}

InitBlameLines ==
    /\ fn = "analyzeBlameResults"
    /\ \E lines \in SeqsUpTo(BlameLineSet, MaxBlameLines) :
          args = [blame |-> [ok |-> TRUE, stdout |-> EndLines(lines)],
                  startDate |-> "2025-03-10",
                  now |-> DateOf(Today.day, 0),
                  zone |-> UTC,
                  lines |-> lines]
    /\ ret = <<>>
    /\ returned = FALSE
    /\ NoRequests

\* ---- POST ----
Requests == {"r1", "r2"}

TraceTwo == "at App.Svc.Run(x)\nat System.IO.Open(p)\nat App.Svc.Run(y)\nat App.Bill.Pay()"

TraceOne == "at Lib.Util.Trim(s)"

TraceSystem == "at System.IO.Open(p)"

\* request bodies: analysable, with no user frame, without a start date, with
\* a start date in another format, and not JSON at all
Bodies ==
    {[ok |-> TRUE, stackTrace |-> Some(TraceTwo), startDate |-> Some("2025-03-10")],
     [ok |-> TRUE, stackTrace |-> Some(TraceOne), startDate |-> Some("2026-03-09")],
     [ok |-> TRUE, stackTrace |-> Some(TraceSystem), startDate |-> Some("2025-03-10")],
     [ok |-> TRUE, stackTrace |-> Some(TraceOne), startDate |-> Null],
     [ok |-> TRUE, stackTrace |-> Some(TraceOne), startDate |-> Some("10/03/2025")],
     [ok |-> TRUE, stackTrace |-> Null, startDate |-> Some("2025-03-10")],
     [ok |-> TRUE, stackTrace |-> Some(TraceOne), startDate |-> Some("2024-13-45")],
     [ok |-> FALSE, message |-> "Unexpected end of JSON input"]}

NewRequest(json) ==
    [pc |-> "json", json |-> json, startDate |-> "", entries |-> <<>>, i |-> 0,
     stepCounter |-> 0, totalSteps |-> 0, results |-> <<>>, filePath |-> "",
     lineRange |-> Null, logged |-> <<>>, response |-> Null]

\* what the file search gives for the class of a namespace: a failure or one file
SearchOutcomes(namespace) ==
    {[ok |-> FALSE],
     [ok |-> TRUE, stdout |-> PROJECT_ROOT \o "\\Src\\" \o SourceFileName(namespace) \o "\r\n"]}

\* the file at the path: gone, or a class with the method
FileOutcomes(methodName) ==
    {[exists |-> FALSE],
     [exists |-> TRUE, content |-> "class C {\n  void " \o methodName \o "() {\n  }\n}"]}

\* what blame gives: a failure, or one commit made the day before Today
BlameOutcomes ==
    {[ok |-> FALSE],
     [ok |-> TRUE,
      stdout |-> EndLines(BlameEntry("a1f", [date |-> "2026-03-09", day |-> 20521, tod |-> 0], TRUE))]}

\* the clock and the time zone of the server: noon of Today, UTC
ServerClock == [now |-> DateOf(Today.day, 43200000), zone |-> UTC]

\* the requests are all made before any is served; at most one of them carries
\* the trace of two frames, and none is made next to one whose startDate names
\* no day
Init ==
    /\ fn = "POST"
    /\ args = <<>>
    /\ ret = <<>>
    /\ returned = FALSE
    /\ progressSteps = <<>>
    /\ tracker = <<>>
    /\ requests \in [Requests -> {NewRequest(json) : json \in Bodies}]
    /\ \E r \in Requests : requests[r].json.ok => requests[r].json.stackTrace # Some(TraceTwo)
    /\ \A r, q \in Requests :
           (requests[r].json.ok /\ requests[r].json.startDate = Some("2024-13-45")) =>
               (requests[q].json.ok => requests[q].json.stackTrace # Some(TraceTwo))

Context(r) == [rq |-> requests[r], steps |-> progressSteps, now |-> ServerClock.now]

\* the call of r has run to its next await or to its response
Resume(r, cx) ==
    /\ requests' = [requests EXCEPT ![r] = cx.rq]
    /\ progressSteps' = cx.steps
    /\ UNCHANGED <<harnessVars, tracker>>

RequestJsonSettles(r) ==
    /\ requests[r].pc = "json"
    /\ Resume(r, BeginAnalysis(Context(r)))

FindSourceFileReturns(r) ==
    /\ requests[r].pc = "findSourceFile"
    /\ LET entry == requests[r].entries[requests[r].i + 1]
       IN \E search \in SearchOutcomes(entry.namespace) :
              Resume(r, AfterFindSourceFile(Context(r),
                            findSourceFile(entry.namespace, PROJECT_ROOT, search)))

FindMethodLineRangeReturns(r) ==
    /\ requests[r].pc = "findMethodLineRange"
    /\ LET entry == requests[r].entries[requests[r].i + 1]
       IN \E file \in FileOutcomes(entry.methodName) :
              Resume(r, AfterFindMethodLineRange(Context(r),
                            findMethodLineRange(file, entry.methodName)))

AnalyzeBlameResultsReturns(r) ==
    /\ requests[r].pc = "analyzeBlameResults"
    /\ \E blame \in BlameOutcomes :
           Resume(r, AfterAnalyzeBlameResults(Context(r),
                         analyzeBlameResults(blame, requests[r].startDate,
                                             ServerClock.now, ServerClock.zone)))

\* blame output whose summaries name a github pull request, an azure one and
\* none, under the headers of two commits made the day before Today
SummaryLineSet ==
    {"a1f 1 1 1", "b2e 2 2 1", "author-time 1773014400", "summary Fix crash (#42)",
     "summary Tidy up (PR 7)", "summary Tidy up"}

InitBlameSummaries ==
    /\ fn = "analyzeBlameResults"
    /\ \E lines \in SeqsUpTo(SummaryLineSet, MaxSummaryLines) :
          args = [blame |-> [ok |-> TRUE, stdout |-> EndLines(lines)],
                  startDate |-> "2025-03-10",
                  now |-> DateOf(Today.day, 0),
                  zone |-> UTC,
                  lines |-> lines]
    /\ ret = <<>>
    /\ returned = FALSE
    /\ NoRequests

\* ---- extractPRNumber ----
\* pieces of commit messages: each of the five references, a malformed one,
\* a digit that lengthens a number, and plain words
MessageParts ==
    {"Merge pull request #12", "(#42)", "(PR 99)", "(PR 1532)", "PR 8", "#7", "(#4x)", "1",
     "Fix rounding ", " and "}

InitPR ==
    /\ fn = "extractPRNumber"
    /\ args \in {[message |-> Concat(parts)] : parts \in SeqsUpTo(MessageParts, MaxMessageParts)}
    /\ ret = <<>>
    /\ returned = FALSE
    /\ NoRequests

CallExtractPRNumber ==
    /\ Call("extractPRNumber")
    /\ Return(extractPRNumber(args.message))

\* ---- getFileCommitsInDateRange and the failures of the external tools ----
\* records of git log in the format %H%n%an%n%ae%n%ai%n%s%n---END---, two of
\* them of one instant, and a record cut short
LogRecordSet ==
    {"a1f\nAl\nal@x.io\n2025-03-10 12:00:00 +0100\nFix crash (#42)\n---END---",
     "b2e\nBo\nbo@x.io\n2025-03-10 09:00:00 -0200\nTidy up\n---END---",
     "c3d\nBo\nbo@x.io\n2025-03-11 01:00:00 +0000\nTidy up (PR 7)\n---END---",
     "c3d\nBo\n---END---"}

\* the records are separated by a line feed
RECURSIVE JoinRecords(_)
JoinRecords(records) ==
    IF records = <<>> THEN ""
    ELSE IF Len(records) = 1 THEN records[1]
    ELSE Head(records) \o "\n" \o JoinRecords(Tail(records))

\* what makes a command fail: the tool is missing, permission is denied, the
\* path is bad, the directory is not a repository
ToolErrors == {"ENOENT", "EACCES", "ENOTDIR", "fatal: not a git repository"}

InitLog ==
    /\ fn = "getFileCommitsInDateRange"
    /\ args \in {[log |-> [ok |-> FALSE, error |-> e], zone |-> UTC] : e \in ToolErrors}
               \cup
               {[log |-> [ok |-> TRUE, stdout |-> JoinRecords(records)], zone |-> zone] :
                    records \in SeqsUpTo(LogRecordSet, MaxLogRecords), zone \in {UTC, LosAngeles}}
    /\ ret = <<>>
    /\ returned = FALSE
    /\ NoRequests

CallGetFileCommitsInDateRange ==
    /\ Call("getFileCommitsInDateRange")
    /\ Return(getFileCommitsInDateRange(args.log, args.zone))

\* each of the four operations is called with its tool failing in each way and
\* with its tool succeeding
InitTools ==
    /\ \/ InitLog
       \/ /\ fn = "findSourceFile"
          /\ args \in {[namespace |-> ns, projectRoot |-> PROJECT_ROOT,
                         search |-> [ok |-> FALSE, error |-> e]] :
                            ns \in FileNamespaces, e \in ToolErrors}
                     \cup
                     {[namespace |-> ns, projectRoot |-> PROJECT_ROOT,
                       search |-> [ok |-> TRUE,
                                   stdout |-> DirOutput(CandidatePaths(dirs, SourceFileName(ns)))]] :
                          ns \in FileNamespaces, dirs \in DistinctSeqsUpTo(CandidateDirs, MaxCandidates)}
       \/ /\ fn = "findMethodLineRange"
          /\ args \in {[file |-> [exists |-> FALSE], methodName |-> "Run"]}
                     \cup
                     {[file |-> [exists |-> TRUE, error |-> e], methodName |-> "Run"] :
                          e \in ToolErrors}
                     \cup
                     {[file |-> [exists |-> TRUE, content |-> JoinLines(ls)], methodName |-> "Run"] :
                          ls \in SeqsUpTo(SourceLines, MaxToolLines)}
       \/ /\ fn = "analyzeBlameResults"
          /\ args \in {[blame |-> [ok |-> FALSE, error |-> e], startDate |-> "2025-03-10",
                         now |-> DateOf(Today.day, 0), zone |-> UTC] : e \in ToolErrors}
                     \cup
                     {[blame |-> [ok |-> TRUE, stdout |-> EndLines(lines)],
                       startDate |-> "2025-03-10", now |-> DateOf(Today.day, 0), zone |-> UTC] :
                          lines \in SeqsUpTo(SummaryLineSet, MaxToolLines)}
    /\ ret = <<>>
    /\ returned = FALSE
    /\ NoRequests

\* ---- ProgressTracker ----
\* a tracker of one or two steps; more steps may be started than it was built for
InitTracker ==
    /\ fn = "ProgressTracker"
    /\ \E totalSteps \in 1..MaxTrackerSteps :
           /\ args = [method |-> "constructor", totalSteps |-> totalSteps]
           /\ tracker = NewTracker(totalSteps)
    /\ ret = <<>>
    /\ returned = TRUE
    /\ progressSteps = <<>>
    /\ requests = <<>>

\* a method of the tracker is called and returns
TrackerCall(call, after, value) ==
    /\ fn = "ProgressTracker"
    /\ Len(after.sent) <= MaxSent
    /\ args' = call
    /\ tracker' = after
    /\ ret' = value
    /\ UNCHANGED <<fn, returned, progressSteps, requests>>

\* subscribe is called with one of the functions 1..MaxObservers, subscribed
\* already or not
CallSubscribe ==
    /\ Len(tracker.observers) < MaxSubscriptions
    /\ \E observer \in 1..MaxObservers :
           TrackerCall([method |-> "subscribe", observer |-> observer],
                       subscribe(tracker, observer), <<>>)

CallStartStep ==
    /\ Len(tracker.steps) <= MaxTrackerSteps
    /\ \E details \in {"one frame"} :
           TrackerCall([method |-> "startStep", stepName |-> "Parse", details |-> details],
                       startStep(tracker, "Parse", details),
                       startStep(tracker, "Parse", details).currentStepNumber)

\* the step number is one of a step started or not
CallCompleteStep ==
    \E stepNumber \in 0..(MaxTrackerSteps + 2) :
        TrackerCall([method |-> "completeStep", stepNumber |-> stepNumber, details |-> "done"],
                    completeStep(tracker, stepNumber, "done"), <<>>)

CallErrorStep ==
    \E stepNumber \in 0..(MaxTrackerSteps + 2) :
        TrackerCall([method |-> "errorStep", stepNumber |-> stepNumber, error |-> "failed"],
                    errorStep(tracker, stepNumber, "failed"), <<>>)

vars == <<fn, args, ret, returned, progressSteps, requests, tracker>>

NextBlameSummaries == CallAnalyzeBlameResults

SpecBlameSummaries == InitBlameSummaries /\ [][NextBlameSummaries]_vars

NextDedupTwice == CallDeduplicateEntries \/ PassResultOn

SpecDedupTwice == InitDedup /\ [][NextDedupTwice]_vars

NextTracker == CallSubscribe \/ CallStartStep \/ CallCompleteStep \/ CallErrorStep

SpecTracker == InitTracker /\ [][NextTracker]_vars

NextMethodToken == CallParseStackTrace

SpecMethodToken == InitMethodToken /\ [][NextMethodToken]_vars

NextFrameLine == CallParseStackTrace

SpecFrameLine == InitFrameLine /\ [][NextFrameLine]_vars

NextTools ==
    \/ CallFindSourceFile
    \/ CallFindMethodLineRange
    \/ CallAnalyzeBlameResults
    \/ CallGetFileCommitsInDateRange

SpecTools == InitTools /\ [][NextTools]_vars

NextPR == CallExtractPRNumber

SpecPR == InitPR /\ [][NextPR]_vars

Next ==
    \E r \in Requests :
        \/ RequestJsonSettles(r)
        \/ FindSourceFileReturns(r)
        \/ FindMethodLineRangeReturns(r)
        \/ AnalyzeBlameResultsReturns(r)

Spec == Init /\ [][Next]_vars

NextBlame == CallAnalyzeBlameResults

SpecBlame == InitBlame /\ [][NextBlame]_vars

NextBlameLines == CallAnalyzeBlameResults

SpecBlameLines == InitBlameLines /\ [][NextBlameLines]_vars

NextMethod == CallFindMethodLineRange
SpecMethod == InitMethod /\ [][NextMethod]_vars

NextFile == CallFindSourceFile
SpecFile == InitFile /\ [][NextFile]_vars

NextParse == CallParseStackTrace
SpecParse == InitParse /\ [][NextParse]_vars

NextDedup == CallDeduplicateEntries
SpecDedup == InitDedup /\ [][NextDedup]_vars

(***************************************************************************)
(* Claims.                                                                 *)
(***************************************************************************)
\* the indices of entries that hold the first occurrence of their key
FirstOccurrences(entries) ==
    {i \in 1..Len(entries) : \A j \in 1..(i - 1) : EntryKey(entries[j]) # EntryKey(entries[i])}

\* the k-th smallest element of a set of numbers
Nth(set, k) == CHOOSE i \in set : Cardinality({j \in set : j < i}) = k - 1

\* C4: the output of deduplicateEntries is the input restricted to the first
\* occurrence of each key namespace.methodName, in input order: a subsequence
\* with no key twice, with every key of the input, holding for each key its
\* first occurrence.
C4_DedupFirstOccurrences ==
    (fn = "deduplicateEntries" /\ returned) =>
        LET xs == args.entries
            first == FirstOccurrences(xs)
        IN /\ Len(ret) = Cardinality(first)
           /\ \A k \in 1..Len(ret) : ret[k] = xs[Nth(first, k)]
           /\ \A k \in 1..Len(ret) : \A l \in 1..Len(ret) :
                  EntryKey(ret[k]) = EntryKey(ret[l]) => k = l
           /\ {EntryKey(xs[i]) : i \in 1..Len(xs)} = {EntryKey(ret[k]) : k \in 1..Len(ret)}

\* a duplicate was dropped from between two kept frames, and two frames of
\* different names but equal key were taken for one
C4_Witness ==
    /\ fn = "deduplicateEntries" /\ returned
    /\ Len(args.entries) = 4 /\ Len(ret) = 2
    /\ ret[2].lineIndex = 3
    /\ args.entries[1].namespace # args.entries[2].namespace
    /\ EntryKey(args.entries[1]) = EntryKey(args.entries[2])

\* the namespaces of the frames that the pattern finds on the lines of a trace
MatchedNamespaces(stackTrace) ==
    LET lines == Split(stackTrace, "\n")
    IN {FrameMatch(lines[i])[1] : i \in {j \in 1..Len(lines) : FrameMatch(lines[j]) # <<>>}}

\* C5: no frame in the output of parseStackTrace has a namespace that begins
\* with the runtime-library prefix System.
C5_NoSystemFrame ==
    (fn = "parseStackTrace" /\ returned) =>
        \A k \in 1..Len(ret) : ~StartsWith(ret[k].namespace, "System.")

\* a trace with a frame under System. and a frame of user code: the first is
\* dropped, the second is kept
C5_Witness ==
    /\ fn = "parseStackTrace" /\ returned
    /\ \E ns \in MatchedNamespaces(args.stackTrace) : StartsWith(ns, "System.")
    /\ Len(ret) = 1
    /\ ret[1].lineIndex = 1

\* the affinity score of candidate i of a findSourceFile call
CandidateScore(i) == calculateNamespaceScore(args.candidates[i], args.namespace, args.projectRoot)

\* C6: findSourceFile returns absent when the search yields no candidate, the
\* sole candidate when it yields one, and otherwise the first candidate in
\* search order among those whose affinity score is maximal.
C6_BestCandidate ==
    (fn = "findSourceFile" /\ returned /\ args.search.ok) =>
        LET n == Len(args.candidates)
        IN /\ n = 0 => ret = Null
           /\ n = 1 => ret = Some(args.candidates[1])
           /\ n >= 2 => \E i \in 1..n :
                            /\ ret = Some(args.candidates[i])
                            /\ \A j \in 1..n : CandidateScore(j) <= CandidateScore(i)
                            /\ \A j \in 1..(i - 1) : CandidateScore(j) < CandidateScore(i)

\* three candidates, the last two tied at the highest score: the second is returned
C6_Witness ==
    /\ fn = "findSourceFile" /\ returned /\ args.search.ok
    /\ Len(args.candidates) = 3
    /\ CandidateScore(1) < CandidateScore(2)
    /\ CandidateScore(2) = CandidateScore(3)
    /\ ret = Some(args.candidates[2])

\* the number of leading path parts that equal the corresponding leading
\* namespace parts, counted up to the first mismatch
LeadingPrefixMatches(filePath, namespace, projectRoot) ==
    LET pathParts == Split(RelativePath(filePath, projectRoot), "/")
        namespaceParts == NamespaceParts(namespace)
        n == Min(Len(namespaceParts), Len(pathParts))
    IN Cardinality({i \in 1..n : \A j \in 1..i : ToLowerCase(pathParts[j]) = namespaceParts[j]})

CandidatePrefix(i) == LeadingPrefixMatches(args.candidates[i], args.namespace, args.projectRoot)

CandidateTotal(i) ==
    TotalMatches(RelativePath(args.candidates[i], args.projectRoot), NamespaceParts(args.namespace))

\* C7: of two candidates with the same number of total containment matches,
\* findSourceFile selects the one with the strictly longer consecutive
\* namespace-to-directory prefix match.
C7_LongerPrefixSelected ==
    (fn = "findSourceFile" /\ returned /\ args.search.ok /\ Len(args.candidates) = 2) =>
        \A i \in 1..2 : \A j \in 1..2 :
            (CandidateTotal(i) = CandidateTotal(j) /\ CandidatePrefix(i) > CandidatePrefix(j))
                => ret = Some(args.candidates[i])

\* the lines of the file of a findMethodLineRange call
FileLines == Split(args.file.content, "\n")

\* open braces minus close braces over the 1-based lines from..to
RECURSIVE BraceBalance(_, _, _)
BraceBalance(lines, from, to) ==
    IF to < from THEN 0
    ELSE BraceBalance(lines, from, to - 1) + CountCh(lines[to], "{") - CountCh(lines[to], "}")

\* the lines at or after the declaration line at which the cumulative brace
\* count is back to zero after having been positive
ClosingLines(lines, start) ==
    {i \in start..Len(lines) :
        /\ BraceBalance(lines, start, i) = 0
        /\ \E j \in start..i : BraceBalance(lines, start, j) > 0}

\* C8: the end line returned by findMethodLineRange is the first line, at or
\* after the declaration line, at which the cumulative open-brace minus
\* close-brace count (taken line by line) returns to zero after having been
\* positive; with nested blocks that is not the line of the first closing brace.
C8_EndAtBraceBalance ==
    (fn = "findMethodLineRange" /\ returned /\ args.file.exists /\ ret # Null) =>
        LET closing == ClosingLines(FileLines, ret.start)
        IN closing # {} =>
               /\ ret.end \in closing
               /\ \A i \in closing : ret.end <= i

\* a body with a nested block: the first closing brace comes before the end line
C8_Witness ==
    /\ fn = "findMethodLineRange" /\ returned /\ args.file.exists /\ ret # Null
    /\ ClosingLines(FileLines, ret.start) # {}
    /\ ret.start > 1
    /\ ret.end >= ret.start + 3
    /\ \E i \in (ret.start + 1)..(ret.end - 1) :
           /\ CountCh(FileLines[i], "}") > 0
           /\ BraceBalance(FileLines, ret.start, i) > 0

\* a date YYYY-MM-DD as the number YYYYMMDD, which orders dates as the calendar does
DateKey(date) ==
    DigitsValue(SubSeq(date, 1, 4)) * 10000 + DigitsValue(SubSeq(date, 6, 7)) * 100
        + DigitsValue(SubSeq(date, 9, 10))

\* date names a day of the calendar
IsCalendarDate(date) == NewDate(date, UTC).valid /\ ToISODate(NewDate(date, UTC)) = date

\* the commit of the repository a returned record is about
CommitOf(record) == args.commits[record.commitHash]

\* C9: a returned commit is in the date range exactly when its calendar date is
\* on or after startDate, whatever its time of day, in whatever time zone the
\* analysis runs.
C9_InDateRangeByDay ==
    (fn = "analyzeBlameResults" /\ returned /\ IsCalendarDate(args.startDate)) =>
        \A i \in 1..Len(ret) :
            ret[i].inDateRange <=> DateKey(CommitOf(ret[i]).date) >= DateKey(args.startDate)

\* the hashes the blame output names
NamedHashes == {args.hashes[i] : i \in 1..Len(args.hashes)}

\* C10: analysed in UTC, a commit is retained exactly when its date is on or
\* after the date one year before today, at whatever time of day the analysis
\* runs.
C10_RetainedFromOneYearAgo ==
    (fn = "analyzeBlameResults" /\ returned /\ args.blame.ok /\ args.zone = UTC) =>
        \A h \in NamedHashes :
            (\E i \in 1..Len(ret) : ret[i].commitHash = h /\ ret[i].withinOneYear)
                <=> DateKey(args.commits[h].date) >= DateKey(Today.yearAgo)

\* the records of the commit map when the loop over the lines has ended
BlameRecords == BlameCommitMap(args.blame.stdout, args.startDate, args.now, args.zone).commitMap

\* the lines that follow the first header of hash, up to the next header
FirstBlock(lines, hash) ==
    LET first == CHOOSE k \in 1..Len(lines) :
                     /\ CommitMatch(lines[k]) = hash
                     /\ \A j \in 1..(k - 1) : CommitMatch(lines[j]) # hash
        later == {k \in (first + 1)..Len(lines) : CommitMatch(lines[k]) # ""}
        last == IF later = {} THEN Len(lines)
                ELSE (CHOOSE k \in later : \A j \in later : k <= j) - 1
    IN SubSeq(lines, first + 1, last)

\* the value of the last line of block that starts with key, or default
RECURSIVE LastValue(_, _, _)
LastValue(block, key, default) ==
    IF block = <<>> THEN default
    ELSE IF StartsWith(block[Len(block)], key)
         THEN SubSeq(block[Len(block)], Len(key) + 1, Len(block[Len(block)]))
         ELSE LastValue(SubSeq(block, 1, Len(block) - 1), key, default)

\* the date of the last author-time line of block, "" when it has none
ExpectedDate(block) ==
    LET value == LastValue(block, "author-time ", "")
    IN IF value = "" THEN "" ELSE ToISODate(DateOfSeconds(ParseInt(value)))

\* C2: each hash has at most one record, and its author, date and message are
\* those of the metadata lines that follow the first header of the hash; the
\* lines after a later header of a hash already seen change no record.
C2_FirstOccurrenceWins ==
    (fn = "analyzeBlameResults" /\ returned) =>
        /\ \A i, j \in 1..Len(BlameRecords) :
               BlameRecords[i].commitHash = BlameRecords[j].commitHash => i = j
        /\ \A i \in 1..Len(BlameRecords) :
               LET block == FirstBlock(args.lines, BlameRecords[i].commitHash)
               IN /\ BlameRecords[i].author = LastValue(block, "author ", "Unknown")
                  /\ BlameRecords[i].commitDate = ExpectedDate(block)
                  /\ BlameRecords[i].commitMessage = LastValue(block, "summary ", "")

\* the request body passes the two validation tests of POST
PassesValidation(json) ==
    /\ json.ok
    /\ ~Falsy(json.stackTrace) /\ ~Falsy(json.startDate)
    /\ IsDateShaped(json.startDate.value)

\* the results of a request are the results of its first frames, in frame
\* order; once the request is answered, of all its frames
ResultsFollowFrames(rq) ==
    /\ Len(rq.results) <= Len(rq.entries)
    /\ \A k \in 1..Len(rq.results) :
           /\ rq.results[k].namespace = rq.entries[k].namespace
           /\ rq.results[k].methodName = rq.entries[k].methodName
    /\ \A k, l \in 1..Len(rq.results) : EntryKey(rq.results[k]) = EntryKey(rq.results[l]) => k = l
    /\ rq.pc # "done" => Len(rq.results) = rq.i
    /\ rq.pc = "done" =>
           /\ rq.response.status = 200
           /\ rq.response.body.results = rq.results
           /\ Len(rq.results) = Len(rq.entries)

\* a step of a request keeps the results it has and adds at most one
ResultsOnlyGrow(r) ==
    /\ Len(requests'[r].results) \in {Len(requests[r].results), Len(requests[r].results) + 1}
    /\ SubSeq(requests'[r].results, 1, Len(requests[r].results)) = requests[r].results

\* C1: a request that passes validation and has frames is answered with one
\* result per deduplicated frame, in frame order and with distinct keys,
\* whichever frames fail; no step removes or alters a result.
C1_OneResultPerFrame ==
    /\ [](\A r \in Requests :
              (PassesValidation(requests[r].json) /\ requests[r].entries # <<>>) =>
                  ResultsFollowFrames(requests[r]))
    /\ [][\A r \in Requests : ResultsOnlyGrow(r)]_vars

\* a request of two frames is answered: the file search of the first frame
\* failed, the second frame was analysed down to its history
C1_Witness ==
    \E r \in Requests :
        /\ requests[r].pc = "done"
        /\ requests[r].response.status = 200
        /\ Len(requests[r].response.body.results) = 2
        /\ "error" \in DOMAIN requests[r].response.body.results[1]
        /\ ~requests[r].response.body.results[1].fileFound
        /\ requests[r].response.body.results[2].methodFound
        /\ requests[r].response.body.results[2].gitBlameResults # <<>>

\* C3: the progress list a request is answered with holds the steps that the
\* request logged, in the order it logged them, and nothing else.
C3_ProgressIsOwn ==
    \A r \in Requests :
        (requests[r].pc = "done" /\ requests[r].response.status = 200) =>
            requests[r].response.body.progress = requests[r].logged

\* the place of the first header of hash in the blame output
Discovery(hash) ==
    CHOOSE k \in 1..Len(args.hashes) :
        args.hashes[k] = hash /\ \A j \in 1..(k - 1) : args.hashes[j] # hash

\* C11: the analysis returns only commits within the retention window, newest
\* date first, and commits of one date in the order of their discovery.
C11_RetainedNewestFirst ==
    (fn = "analyzeBlameResults" /\ returned) =>
        /\ \A i \in 1..Len(ret) : ret[i].withinOneYear
        /\ \A i, j \in 1..Len(ret) :
               i < j =>
                   /\ DateKey(ret[i].commitDate) >= DateKey(ret[j].commitDate)
                   /\ ret[i].commitDate = ret[j].commitDate =>
                          Discovery(ret[i].commitHash) < Discovery(ret[j].commitHash)

\* two commits of one date are returned, b2e discovered before a1f, while a
\* third group of lines names b2e again
C11_Witness ==
    /\ fn = "analyzeBlameResults" /\ returned
    /\ Len(ret) = 2
    /\ ret[1].commitDate = ret[2].commitDate
    /\ ret[1].commitHash = "b2e" /\ ret[2].commitHash = "a1f"
    /\ Len(args.hashes) = 3

\* the five patterns in priority order: what precedes the digits, whether
\* white space separates them, what follows them, and the source
PRPatterns ==
    <<[prefix |-> "Merge pull request #", spaced |-> FALSE, suffix |-> "", source |-> "github"],
      [prefix |-> "(#", spaced |-> FALSE, suffix |-> ")", source |-> "github"],
      [prefix |-> "(PR", spaced |-> TRUE, suffix |-> ")", source |-> "azure"],
      [prefix |-> "#", spaced |-> FALSE, suffix |-> "", source |-> "github"],
      [prefix |-> "PR", spaced |-> TRUE, suffix |-> "", source |-> "azure"]>>

\* pattern occurs in message at position i with n digits
OccursAt(message, pattern, i, n) ==
    LET p == i + Len(pattern.prefix)
        ws == RunLen(message, p, TrimSpace)
        d == p + ws
    IN /\ SubstringAt(message, i, pattern.prefix)
       /\ IF pattern.spaced THEN ws >= 1 ELSE ws = 0
       /\ n >= 1 /\ d + n - 1 <= Len(message) /\ AllIn(message, d, d + n - 1, Digit)
       /\ SubstringAt(message, d + n, pattern.suffix)

Occurs(message, pattern) ==
    \E i \in 1..Len(message), n \in 1..Len(message) : OccursAt(message, pattern, i, n)

\* number is what the leftmost occurrence of pattern captures, with as many
\* digits as the pattern allows
Captures(message, pattern, number) ==
    \E i \in 1..Len(message) :
        LET d == i + Len(pattern.prefix) + RunLen(message, i + Len(pattern.prefix), TrimSpace)
        IN /\ OccursAt(message, pattern, i, Len(number))
           /\ SubSeq(message, d, d + Len(number) - 1) = number
           /\ \A j \in 1..(i - 1), n \in 1..Len(message) : ~OccursAt(message, pattern, j, n)
           /\ \A n \in (Len(number) + 1)..Len(message) : ~OccursAt(message, pattern, i, n)

\* C12: extractPRNumber gives the number and the source of the first of the
\* five patterns, in priority order, that occurs in the message, and no
\* reference when none occurs.
C12_FirstPatternWins ==
    (fn = "extractPRNumber" /\ returned) =>
        LET matching == {k \in 1..5 : Occurs(args.message, PRPatterns[k])}
        IN /\ matching = {} => ret = <<>>
           /\ matching # {} =>
                  LET first == CHOOSE k \in matching : \A l \in matching : k <= l
                  IN /\ DOMAIN ret = {"prNumber", "prSource"}
                     /\ ret.prSource = PRPatterns[first].source
                     /\ Captures(args.message, PRPatterns[first], ret.prNumber)
           /\ args.message = "(#42) and (PR 99)" => ret = [prNumber |-> "42", prSource |-> "github"]
           /\ args.message = "Fix rounding (PR 1532)" =>
                  ret = [prNumber |-> "1532", prSource |-> "azure"]

\* the azure reference comes first in the message and the github one wins
C12_Witness ==
    /\ fn = "extractPRNumber" /\ returned
    /\ args.message = "(PR 99) and (#42)"
    /\ ret = [prNumber |-> "42", prSource |-> "github"]

\* the pull request fields of a record are all absent, or all present with
\* the URL of the record's source and number
PRFieldsAgree(record) ==
    LET present == DOMAIN record \cap {"prNumber", "prSource", "prUrl"}
    IN \/ present = {}
       \/ /\ present = {"prNumber", "prSource", "prUrl"}
          /\ record.prSource \in {"github", "azure"}
          /\ record.prSource = "azure" =>
                 record.prUrl = "https://devops.wisetechglobal.com/wtg/CargoWise/_git/Dev/pullrequest/"
                                    \o record.prNumber
          /\ record.prSource = "github" =>
                 record.prUrl = "https://github.com/WiseTechGlobal/CargoWise/pull/" \o record.prNumber

\* C13: in every commit record, prNumber, prSource and prUrl are all absent or
\* all present, and prUrl is the URL of prSource with prNumber in it.
C13_PRFieldsTogether ==
    (fn = "analyzeBlameResults" /\ returned) =>
        /\ \A i \in 1..Len(BlameRecords) : PRFieldsAgree(BlameRecords[i])
        /\ \A i \in 1..Len(ret) : PRFieldsAgree(ret[i])

\* a returned record names an azure pull request, and another record of the
\* analysis names none
C13_Witness ==
    /\ fn = "analyzeBlameResults" /\ returned
    /\ \E i \in 1..Len(ret) : "prSource" \in DOMAIN ret[i] /\ ret[i].prSource = "azure"
    /\ \E i \in 1..Len(BlameRecords) : "prNumber" \notin DOMAIN BlameRecords[i]

\* every result of every request, pushed or answered
AllResults ==
    UNION {{requests[r].results[k] : k \in 1..Len(requests[r].results)} : r \in Requests}

NoFinding(result) ==
    ~result.methodFound /\ result.lineRange = Null /\ result.gitBlameResults = <<>>

FileNotFoundShape(result) ==
    /\ ~result.fileFound /\ NoFinding(result)
    /\ "error" \in DOMAIN result
    /\ result.error = "Source file not found. Please manually verify in codebase."

MethodNotFoundShape(result) ==
    /\ result.fileFound /\ result.filePath # "" /\ NoFinding(result)
    /\ "error" \in DOMAIN result
    /\ result.error = "Method not found in file. May be defined in interface or base class."

LocatedShape(result) ==
    /\ result.fileFound /\ result.methodFound /\ result.lineRange # Null
    /\ "error" \notin DOMAIN result

ShapeConsequences(result) ==
    /\ result.methodFound => result.fileFound
    /\ result.lineRange # Null <=> result.methodFound
    /\ result.gitBlameResults # <<>> => result.methodFound

\* C14: every result has one of the three shapes file not found, method not
\* found (each with its guidance message) and located; methodFound implies
\* fileFound, a line range is present iff methodFound, and commits are listed
\* only when methodFound.
C14_ThreeShapes ==
    \A result \in AllResults :
        /\ FileNotFoundShape(result) \/ MethodNotFoundShape(result) \/ LocatedShape(result)
        /\ ShapeConsequences(result)

\* a request is answered with a method that was not found and a frame located
\* with its commit
C14_Witness ==
    \E r \in Requests :
        /\ requests[r].pc = "done"
        /\ Len(requests[r].results) = 2
        /\ MethodNotFoundShape(requests[r].results[1])
        /\ LocatedShape(requests[r].results[2])
        /\ requests[r].results[2].gitBlameResults # <<>>
        /\ requests[r].response.body.results = requests[r].results

\* a step of request r calls a stage only after the stage before it, for the
\* same frame, has given its result, and a frame gets its result and the next
\* frame begins as soon as a stage fails
StagesInOrder(r) ==
    LET before == requests[r]
        after == requests'[r]
        pushed == Len(after.results) = Len(before.results) + 1
        sameFrame == after.i = before.i /\ after.results = before.results
    IN after # before =>
           /\ after.pc = "findMethodLineRange" =>
                  before.pc = "findSourceFile" /\ sameFrame /\ after.filePath # ""
           /\ after.pc = "analyzeBlameResults" =>
                  /\ before.pc = "findMethodLineRange" /\ sameFrame
                  /\ after.filePath = before.filePath /\ after.lineRange # Null
           /\ after.pc = "findSourceFile" =>
                  \/ before.pc = "json" /\ after.i = 0 /\ after.results = <<>>
                  \/ pushed /\ after.i = before.i + 1
           /\ (before.pc = "json" /\ after.pc = "done") => after.results = <<>>
           /\ before.pc # "json" =>
                  (pushed <=> after.pc \in {"findSourceFile", "done"})
           /\ pushed => after.i = before.i + 1

\* C15: for each frame the stages are called in the order file resolution,
\* method location, history analysis, each only when the one before it
\* succeeded; a frame whose stage fails gets its error result at once and the
\* next frame is processed.
C15_StagesInOrder ==
    [][\A r \in Requests : StagesInOrder(r)]_vars

\* the steps a request logged for the frame of index i
FrameSteps(rq, i) ==
    {k \in 1..Len(rq.logged) :
        rq.logged[k].totalSteps = rq.totalSteps /\ rq.logged[k].stepNumber \in (2 + 3 * i)..(4 + 3 * i)}

\* the first frame had no file: two steps were logged for it, none for the
\* method or the history; the second frame went through the three stages
C15_Witness ==
    \E r \in Requests :
        /\ requests[r].pc = "done"
        /\ Len(requests[r].results) = 2
        /\ FileNotFoundShape(requests[r].results[1])
        /\ LocatedShape(requests[r].results[2])
        /\ \A k \in FrameSteps(requests[r], 0) : requests[r].logged[k].title = "Find Source File"
        /\ {requests[r].logged[k].title : k \in FrameSteps(requests[r], 1)}
               = {"Find Source File", "Find Method Location", "Query Git History"}

\* the body is one POST answers without analysing any frame: a field is
\* missing, startDate is not of the shape YYYY-MM-DD, or no line of the trace
\* is a frame of custom code
Rejected(json) ==
    /\ json.ok
    /\ \/ Falsy(json.stackTrace) \/ Falsy(json.startDate)
       \/ ~IsDateShaped(json.startDate.value)
       \/ deduplicateEntries(parseStackTrace(json.stackTrace.value)) = <<>>

\* the bodies of the requests made that POST answers so
RejectedBodies == {json \in Bodies : Rejected(json)}

\* the steps of the stages that call the external tools
StageTitles == {"Find Source File", "Find Method Location", "Query Git History"}

\* C16: a request whose stackTrace or startDate is missing, whose startDate is
\* not of the shape YYYY-MM-DD, or whose trace has no qualifying frame is
\* answered with status 400 and an error, without a list of results, and none
\* of the three stages is ever called for it.
C16_RejectedEarly ==
    \A r \in Requests :
        requests[r].json \in RejectedBodies =>
            /\ requests[r].pc \in {"json", "done"}
            /\ requests[r].results = <<>>
            /\ \A k \in 1..Len(requests[r].logged) : requests[r].logged[k].title \notin StageTitles
            /\ requests[r].pc = "done" =>
                   /\ requests[r].response.status = 400
                   /\ DOMAIN requests[r].response.body = {"error"}

\* the two requests are answered, one rejected for the shape of its date and
\* one, after its trace was parsed, for having no frame of custom code
C16_Witness ==
    \E r, q \in Requests :
        /\ requests[r].pc = "done" /\ requests[q].pc = "done"
        /\ requests[r].json.ok /\ requests[r].json.startDate = Some("10/03/2025")
        /\ requests[r].response.status = 400
        /\ requests[q].json.ok /\ requests[q].json.stackTrace = Some(TraceSystem)
        /\ Len(requests[q].logged) = 1
        /\ requests[q].response.status = 400

\* the bodies of the requests made whose two fields are present and whose
\* startDate names no day of the calendar
NoDayBodies ==
    {json \in Bodies :
        /\ json.ok /\ ~Falsy(json.stackTrace) /\ ~Falsy(json.startDate)
        /\ ~IsCalendarDate(json.startDate.value)}

\* C17: a request whose startDate names no day of the calendar is answered
\* with status 400 before any frame is processed; the startDate of a request
\* whose frames are processed names a day.
C17_OnlyCalendarDates ==
    \A r \in Requests :
        requests[r].json \in NoDayBodies =>
            /\ requests[r].pc \in {"json", "done"}
            /\ requests[r].results = <<>>
            /\ requests[r].pc = "done" => requests[r].response.status = 400

\* the external tool of the call failed: the file search, the read of the
\* source file, git blame, git log
ToolFailed ==
    CASE fn = "findSourceFile" -> ~args.search.ok
      [] fn = "findMethodLineRange" -> ~args.file.exists \/ "content" \notin DOMAIN args.file
      [] fn = "analyzeBlameResults" -> ~args.blame.ok
      [] fn = "getFileCommitsInDateRange" -> ~args.log.ok

\* C18: an operation whose external tool fails returns its absent value: null
\* from findSourceFile and findMethodLineRange, the empty list from
\* analyzeBlameResults and getFileCommitsInDateRange; the call returns, it
\* raises nothing.
C18_FailureGivesAbsent ==
    (returned /\ ToolFailed) =>
        IF fn \in {"findSourceFile", "findMethodLineRange"} THEN ret = Null ELSE ret = <<>>

\* git log failed for a directory that is not a repository
C18_Witness ==
    /\ fn = "getFileCommitsInDateRange" /\ returned
    /\ args.log = [ok |-> FALSE, error |-> "fatal: not a git repository"]
    /\ ret = <<>>

\* C19: a line "at Q.M(args)" whose qualified name Q has a first segment other
\* than System and whose M is an identifier gives exactly one frame, of
\* namespace Q and method name M; a line "at M(args)" gives no frame.
C19_FrameOfLine ==
    (fn = "parseStackTrace" /\ returned /\ "segments" \in DOMAIN args) =>
        /\ args.segments = <<>> => ret = <<>>
        /\ (args.segments # <<>> /\ args.segments[1] # "System") =>
               /\ Len(ret) = 1
               /\ ret[1].namespace = Qualified(args.segments)
               /\ ret[1].methodName = args.method

\* C20: deduplicateEntries applied to its own result returns that result, the
\* same frames in the same order.
C20_DedupIdempotent ==
    (fn = "deduplicateEntries" /\ returned /\ "first" \in DOMAIN args) => ret = args.first

\* the first call dropped frames from four, the second call was given the two
\* it kept
C20_Witness ==
    /\ fn = "deduplicateEntries" /\ returned /\ "first" \in DOMAIN args
    /\ Len(args.first) = 2 /\ args.first[2].lineIndex = 3
    /\ Len(ret) = 2

\* C21: calculateNamespaceScore returns 100 * c + 10 * t, c the number of
\* leading path parts equal to the corresponding leading namespace parts,
\* counted in order up to the first mismatch, t the number of namespace parts
\* that occur in the relative path.
C21_ScoreFormula ==
    (fn = "findSourceFile" /\ returned /\ args.search.ok /\ Len(args.candidates) >= 2) =>
        \A i \in 1..Len(args.candidates) :
            CandidateScore(i) = 100 * CandidatePrefix(i) + 10 * CandidateTotal(i)

\* a findMethodLineRange call that read its file
FileRead == fn = "findMethodLineRange" /\ returned /\ "content" \in DOMAIN args.file

\* the source lines that match the signature pattern of the method Run, the
\* method every call looks for
DeclaringLines == {line \in SourceLines : MethodPatternTest(line, "Run")}

\* the 1-based lines of the file that match the signature pattern
DeclarationLines ==
    LET lines == FileLines IN {i \in 1..Len(lines) : lines[i] \in DeclaringLines}

\* the first of them
FirstDeclaration == CHOOSE i \in DeclarationLines : \A j \in DeclarationLines : i <= j

\* C22: when the declaration line holds no brace and no line closes a body for
\* it, findMethodLineRange returns absent, not a range.
C22_StubIsAbsent ==
    (/\ FileRead /\ DeclarationLines # {}
     /\ CountCh(FileLines[FirstDeclaration], "{") = 0
     /\ CountCh(FileLines[FirstDeclaration], "}") = 0
     /\ ClosingLines(FileLines, FirstDeclaration) = {}) => ret = Null

\* open braces minus close braces over the first k characters of line
CharBalance(line, k) == CountCh(SubSeq(line, 1, k), "{") - CountCh(SubSeq(line, 1, k), "}")

\* the count goes positive and is back to zero within the line
BodyOnLine(line) ==
    /\ \E k \in 1..Len(line) : CharBalance(line, k) > 0
    /\ \A k \in 1..Len(line) : CharBalance(line, k) >= 0
    /\ CharBalance(line, Len(line)) = 0

\* C23: when the body opens and closes on the declaration line, the range
\* returned is that line alone, whatever follows it in the file.
C23_BodyOnDeclarationLine ==
    (FileRead /\ DeclarationLines # {} /\ BodyOnLine(FileLines[FirstDeclaration])) =>
        ret = [start |-> FirstDeclaration, end |-> FirstDeclaration]

\* C24: a range returned for a file of N lines starts at the first line that
\* matches the signature pattern and has 1 <= start <= end <= N; absent is
\* returned when no line matches and when the file does not exist.
C24_RangeInFile ==
    (fn = "findMethodLineRange" /\ returned) =>
        LET declared == IF "content" \in DOMAIN args.file THEN DeclarationLines ELSE {}
        IN IF declared # {}
           THEN /\ ret # Null
                /\ \A i \in declared : ret.start <= i
                /\ ret.start \in declared
                /\ 1 <= ret.start /\ ret.start <= ret.end /\ ret.end <= Len(FileLines)
           ELSE ret = Null

\* the method is declared twice, the first time after a line that is no
\* declaration; the body of the first declaration runs to the last line
C24_Witness ==
    /\ FileRead /\ ret # Null
    /\ Cardinality(DeclarationLines) = 2
    /\ ret.start = 2
    /\ ret.end = Len(FileLines) /\ ret.end > ret.start

\* C25: the method name of an emitted frame holds no arity marker, no
\* bracketed list of generic arguments and no angle bracket, and the frame of
\* a method token <Name>suffix has the method name Name.
C25_DecorationStripped ==
    (fn = "parseStackTrace" /\ returned /\ "parts" \in DOMAIN args) =>
        /\ \A k \in 1..Len(ret) :
               /\ ~Includes(ret[k].methodName, Backtick \o "1")
               /\ ~Includes(ret[k].methodName, "[T]")
               /\ ~Includes(ret[k].methodName, "<") /\ ~Includes(ret[k].methodName, ">")
        /\ (Len(args.parts) = 4 /\ SubSeq(args.parts, 1, 3) = <<"<", "Run", ">">>
                /\ args.parts[4] \in {"d__1", "Run"}) =>
               (Len(ret) = 1 /\ ret[1].methodName = "Run")

\* C26: a frame is emitted for a line only if the line, once trimmed, begins
\* with the marker "at " followed by a qualified name and "("; a line that
\* holds them only after other text, also within another word, gives no frame.
C26_MarkerBeginsLine ==
    (fn = "parseStackTrace" /\ returned /\ "segments" \notin DOMAIN args
        /\ "parts" \notin DOMAIN args) =>
        \A k \in 1..Len(ret) : StartsWith(Trim(ret[k].originalLine), "at ")

\* C27: a line "at Q.M(args)" gives no frame exactly when the first segment of
\* Q is System; a first segment that only begins with the letters System, as
\* SystemTools, does not make the frame be dropped.
C27_OnlySystemDropped ==
    (fn = "parseStackTrace" /\ returned /\ "segments" \in DOMAIN args /\ args.segments # <<>>) =>
        (ret = <<>> <=> args.segments[1] = "System")

\* C28: the progress records a request is answered with all carry the same
\* totalSteps, 1 + 3 * the number of deduplicated frames, and each has
\* 1 <= stepNumber <= totalSteps.
C28_OneTotalSteps ==
    \A r \in Requests :
        (requests[r].pc = "done" /\ requests[r].response.status = 200) =>
            \A k \in 1..Len(requests[r].response.body.progress) :
                LET step == requests[r].response.body.progress[k]
                IN /\ step.totalSteps = 1 + 3 * Len(requests[r].entries)
                   /\ 1 <= step.stepNumber /\ step.stepNumber <= step.totalSteps

\* the calls made to the observers during a step of the tracker
NewlySent == SubSeq(tracker'.sent, Len(tracker.sent) + 1, Len(tracker'.sent))

\* the observers subscribed before the step
Subscribed == {tracker.observers[k] : k \in 1..Len(tracker.observers)}

\* every observer subscribed before the step was called exactly once, with
\* step, and nobody else was called
EachNotifiedOnce(step) ==
    /\ \A observer \in Subscribed :
           Cardinality({i \in 1..Len(NewlySent) : NewlySent[i].observer = observer}) = 1
    /\ \A i \in 1..Len(NewlySent) :
           NewlySent[i].observer \in Subscribed /\ NewlySent[i].step = step

\* what a call of a method of the tracker does to the observers
NotifiesAsStated ==
    LET call == args'
    IN CASE call.method = "subscribe" ->
                /\ tracker'.observers = Append(tracker.observers, call.observer)
                /\ NewlySent = [k \in 1..Len(tracker.steps) |->
                                   [observer |-> call.observer, step |-> tracker.steps[k]]]
                /\ tracker'.steps = tracker.steps
         [] call.method = "startStep" ->
                /\ Len(tracker'.steps) = Len(tracker.steps) + 1
                /\ SubSeq(tracker'.steps, 1, Len(tracker.steps)) = tracker.steps
                /\ tracker'.steps[Len(tracker'.steps)].status = "running"
                /\ EachNotifiedOnce(tracker'.steps[Len(tracker'.steps)])
         [] call.method \in {"completeStep", "errorStep"} ->
                IF call.stepNumber \in {tracker.steps[n].stepNumber : n \in 1..Len(tracker.steps)}
                THEN /\ tracker'.steps[call.stepNumber].status
                            = (IF call.method = "completeStep" THEN "success" ELSE "error")
                     /\ EachNotifiedOnce(tracker'.steps[call.stepNumber])
                ELSE NewlySent = <<>> /\ tracker'.steps = tracker.steps

\* every observer has been sent every step there is
AllStepsSent ==
    \A k \in 1..Len(tracker.observers) : \A n \in 1..Len(tracker.steps) :
        \E i \in 1..Len(tracker.sent) :
            /\ tracker.sent[i].observer = tracker.observers[k]
            /\ tracker.sent[i].step.stepNumber = tracker.steps[n].stepNumber

\* C29: subscribe sends the new observer every step recorded so far, in step
\* order; startStep, and completeStep and errorStep on a step that exists,
\* call every subscribed observer exactly once with the step; completeStep and
\* errorStep on a step number never started call nobody and change no step.
\* So every observer has been sent every step there is.
C29_ObserversNotified ==
    [](AllStepsSent) /\ [][NotifiesAsStated]_vars

\* C30: the status of a step goes from running to success or to error and
\* does not change after that.
C30_StatusIsTerminal ==
    [][\A n \in 1..Len(tracker.steps) :
           tracker.steps[n].status \in {"success", "error"} =>
               tracker'.steps[n].status = tracker.steps[n].status]_vars
====
